---- MODULE Spec2Model ----
(***************************************************************************)
(* Elements (pyECSS): the animation blender of AnimationComponents, the    *)
(* entity tree of the scenegraph and the pre-order traversal that          *)
(* propagates transforms.                                                   *)
(*                                                                         *)
(* Numbers: matrices of the scenegraph are 4x4 integer matrices.  Pose     *)
(* matrices produced by the blender (MM) and quaternions are fixed-point   *)
(* numbers scaled by QS, the blend factor alpha is the exact fraction      *)
(* <<numerator, denominator>>.                                             *)
(***************************************************************************)
EXTENDS Integers, Sequences, FiniteSets, TLC

\* ------------------------------------------------------------------ bounds
MaxTime == 4
MaxTempo == 2
MaxTicks == 250
QS == 1000
MaxEntities == 4
MaxSceneEntities == 3
MaxNodes == 3
MaxDetail == 3
MaxRows == 2
MaxAttributes == 3
MaxRounds == 3

\* Python's None where a keyframe (a sequence of bone matrices) is expected
None == <<>>

VARIABLES
    \* AnimationComponents fields
    alpha, tempo, time_add, anition_start, time, flag, inter, MM,
    \* the caller's keyframes (arguments of animation_loop) and its result
    key1, key2, key3, MM1Data,
    \* which branch of the segment test the last call took, and the calls made
    segment, ticks,
    \* the world: created entities, each one's parent reference, ordered child
    \* list and ordered component list
    entities, parent, children, comps,
    \* the last operation called on the world, its arguments and its outcome
    \* (err: the error raised; n: loop rounds; log: the (entity, component
    \* index) pairs a traversal visited, in order)
    lastOp,
    \* the arguments a feature wrapper was called with, and the arrays its
    \* generate function returned (wrapper: which one ran)
    input, data,
    \* a RenderMesh (vertex_attributes, vertex_index) and the last operation
    \* on it (op; err: what it raised or flagged; read: the row counts of the
    \* attribute arrays a pass read)
    mesh, meshOp,
    \* a component object and the last method called on it (kwargs: the named
    \* arguments; raised: the error it raised; calls: the method and handler
    \* invocations it made, outermost first; ret: what it returned)
    comp, compOp,
    \* the position of the example's main program: the call that runs next
    pc,
    \* the list objects of the program (by identity), two AnimationComponents
    \* instances a and b (their time field holds the identity of a list), and
    \* the last operation made on one of them
    lists, anims, instOp,
    \* the shader lists the feature wrappers append to, and the last render
    \* operation called (op; entity: its target; raised: what it raised)
    shaders, renderOp

animVars == <<alpha, tempo, time_add, anition_start, time, flag, inter, MM,
              key1, key2, key3, MM1Data, segment, ticks>>

worldVars == <<entities, parent, children, comps, lastOp>>

meshVars == <<input, data, mesh, meshOp>>

compVars == <<comp, compOp>>

instVars == <<lists, anims, instOp>>

renderVars == <<shaders, renderOp>>

\* what the animation and the world leave alone
restVars == <<meshVars, compVars, pc, instVars, renderVars>>

vars == <<animVars, worldVars, restVars>>

\* ----------------------------------------------------------------- numbers
Abs(x) == IF x < 0 THEN -x ELSE x

RECURSIVE ISqrtIter(_, _, _)
ISqrtIter(n, lo, hi) ==
    IF lo >= hi THEN lo
    ELSE LET mid == (lo + hi + 1) \div 2
         IN IF mid * mid <= n THEN ISqrtIter(n, mid, hi)
            ELSE ISqrtIter(n, lo, mid - 1)

\* floor of the square root of n >= 0
ISqrt(n) == ISqrtIter(n, 0, 4 * QS)

\* np.eye(4), fixed-point
eye4 == << <<QS, 0, 0, 0>>, <<0, QS, 0, 0>>, <<0, 0, QS, 0>>, <<0, 0, 0, QS>> >>

\* a rigid 4x4 matrix from a 3x3 rotation r and a translation t
Rigid(r, t) ==
    << <<r[1][1], r[1][2], r[1][3], t[1]>>,
       <<r[2][1], r[2][2], r[2][3], t[2]>>,
       <<r[3][1], r[3][2], r[3][3], t[3]>>,
       <<0, 0, 0, 1>> >>

RotId == << <<1, 0, 0>>, <<0, 1, 0>>, <<0, 0, 1>> >>
RotX180 == << <<1, 0, 0>>, <<0, -1, 0>>, <<0, 0, -1>> >>
RotZ180 == << <<-1, 0, 0>>, <<0, -1, 0>>, <<0, 0, 1>> >>

\* ------------------------------------------------------------- quaternions
\* a quaternion is <<w, x, y, z>>, fixed-point

\* quat.Quaternion.from_rotation_matrix: the rotation of the upper 3x3 block
from_rotation_matrix(M) ==
    LET m00 == M[1][1]
        m11 == M[2][2]
        m22 == M[3][3]
        tr == m00 + m11 + m22
    IN IF tr > 0
       THEN LET w == ISqrt((1 + tr) * QS * QS) \div 2
            IN << w,
                  ((M[3][2] - M[2][3]) * QS * QS) \div (4 * w),
                  ((M[1][3] - M[3][1]) * QS * QS) \div (4 * w),
                  ((M[2][1] - M[1][2]) * QS * QS) \div (4 * w) >>
       ELSE IF m00 >= m11 /\ m00 >= m22
       THEN LET x == ISqrt((1 + m00 - m11 - m22) * QS * QS) \div 2
            IN << ((M[3][2] - M[2][3]) * QS * QS) \div (4 * x),
                  x,
                  ((M[1][2] + M[2][1]) * QS * QS) \div (4 * x),
                  ((M[1][3] + M[3][1]) * QS * QS) \div (4 * x) >>
       ELSE IF m11 >= m22
       THEN LET y == ISqrt((1 + m11 - m00 - m22) * QS * QS) \div 2
            IN << ((M[1][3] - M[3][1]) * QS * QS) \div (4 * y),
                  ((M[1][2] + M[2][1]) * QS * QS) \div (4 * y),
                  y,
                  ((M[2][3] + M[3][2]) * QS * QS) \div (4 * y) >>
       ELSE LET z == ISqrt((1 + m22 - m00 - m11) * QS * QS) \div 2
            IN << ((M[2][1] - M[1][2]) * QS * QS) \div (4 * z),
                  ((M[1][3] + M[3][1]) * QS * QS) \div (4 * z),
                  ((M[2][3] + M[3][2]) * QS * QS) \div (4 * z),
                  z >>

\* quat.Quaternion.to_rotation_matrix: the 3x3 rotation of a unit quaternion
to_rotation_matrix(q) ==
    LET w == q[1]
        x == q[2]
        y == q[3]
        z == q[4]
    IN << << (w * w + x * x - y * y - z * z) \div QS,
             (2 * (x * y - w * z)) \div QS,
             (2 * (x * z + w * y)) \div QS >>,
          << (2 * (x * y + w * z)) \div QS,
             (w * w - x * x + y * y - z * z) \div QS,
             (2 * (y * z - w * x)) \div QS >>,
          << (2 * (x * z - w * y)) \div QS,
             (2 * (y * z + w * x)) \div QS,
             (w * w - x * x - y * y + z * z) \div QS >> >>

QDot(p, q) == p[1] * q[1] + p[2] * q[2] + p[3] * q[3] + p[4] * q[4]

QNormalize(v) ==
    LET n == ISqrt(QDot(v, v))
    IN IF n = 0 THEN v ELSE [i \in 1..4 |-> (v[i] * QS) \div n]

\* quat.quaternion_lerp(q1, q2, t), t = n/d: the normalised linear blend
quaternion_lerp(q1, q2, n, d) ==
    QNormalize([i \in 1..4 |-> ((d - n) * q1[i] + n * q2[i]) \div d])

\* sin(t * pi/2) for t = n/d in [0,1], fixed-point (Bhaskara's rational form)
SinQuarter(n, d) ==
    (QS * 4 * n * (2 * d - n)) \div (5 * d * d - n * (2 * d - n))

\* quat.quaternion_slerp(q1, q2, t), t = n/d: along the shorter arc; the
\* spherical weights for orthogonal quaternions, the normalised linear blend
\* for any other pair
quaternion_slerp(q1, q2, n, d) ==
    LET q2s == IF QDot(q1, q2) < 0 THEN [i \in 1..4 |-> -q2[i]] ELSE q2
    IN IF QDot(q1, q2s) = 0
       THEN [i \in 1..4 |->
                (SinQuarter(d - n, d) * q1[i] + SinQuarter(n, d) * q2s[i]) \div QS]
       ELSE quaternion_lerp(q1, q2s, n, d)

\* --------------------------------------------------------------- Keyframe
\* Keyframe.translate of Keyframe(array_MM=[k]): the translation column of
\* every bone matrix
Keyframe_translate(k) == [i \in 1..Len(k) |-> <<k[i][1][4], k[i][2][4], k[i][3][4]>>]

\* Keyframe.rotate of Keyframe(array_MM=[k]): the quaternion of every bone
\* matrix
Keyframe_rotate(k) == [i \in 1..Len(k) |-> from_rotation_matrix(k[i])]

\* ---------------------------------------------------- AnimationComponents
\* lerp with the weights of a and b exchanged
lerpSwapped(a, b, n, d) == (n * a * QS + (d - n) * b * QS) \div d

\* lerp(a, b, t) = (1 - t) * a + t * b, t = n/d, fixed-point result
lerp(a, b, n, d) == ((d - n) * a * QS + n * b * QS) \div d

\* one pose matrix: MM[i][:3,:3] <- rot, MM[i][:3,3] <- tr, on np.eye(4)
PoseMatrix(rot, tr) ==
    << <<rot[1][1], rot[1][2], rot[1][3], tr[1]>>,
       <<rot[2][1], rot[2][2], rot[2][3], tr[2]>>,
       <<rot[3][1], rot[3][2], rot[3][3], tr[3]>>,
       eye4[4] >>

\* the blend factor animation_for_loop computes
AlphaOf(acc, t0, t1) == <<acc - t0, Abs(t1 - t0)>>

\* the poses animation_for_loop writes into MM (base: MM as filled before)
BlendedMM(base, k_1, k_2, a, mode) ==
    [i \in 1..Len(base) |->
        IF i > Len(k_1) THEN base[i]
        ELSE PoseMatrix(
            to_rotation_matrix(
                IF mode = "LERP"
                THEN quaternion_lerp(Keyframe_rotate(k_1)[i], Keyframe_rotate(k_2)[i], a[1], a[2])
                ELSE quaternion_slerp(Keyframe_rotate(k_1)[i], Keyframe_rotate(k_2)[i], a[1], a[2])),
            [c \in 1..3 |->
                lerp(Keyframe_translate(k_1)[i][c], Keyframe_translate(k_2)[i][c], a[1], a[2])])]

\* the pose left over from the call before
IdleMMStale(k) == MM

\* np.eye(4) for every bone of key1: the pose before any interpolation
IdleMM(k) == [i \in 1..Len(k) |-> eye4]

\* the flag test without the turn at time[1] when key3 is None
FlagAfterTwoKeysIgnored ==
    IF time_add >= time[2] THEN FALSE
    ELSE IF time_add <= time[0] THEN TRUE
    ELSE flag

\* the flag test with strict comparisons
FlagAfterStrict ==
    IF (time_add > time[1] /\ key3 = None) \/ time_add > time[2] THEN FALSE
    ELSE IF time_add < time[0] THEN TRUE
    ELSE flag

\* the direction flag after the test at the top of animation_loop
FlagAfter ==
    IF (time_add >= time[1] /\ key3 = None) \/ time_add >= time[2] THEN FALSE
    ELSE IF time_add <= time[0] THEN TRUE
    ELSE flag

\* a segment test that takes the whole range [time[0], time[2]] as A->B
SegmentTestWholeRange ==
    IF time_add >= time[0] /\ time_add <= time[2] THEN "AB"
    ELSE "none"

\* the branch of the segment test
SegmentTest ==
    IF time_add >= time[0] /\ time_add <= time[1] THEN "AB"
    ELSE IF time_add > time[1] /\ time_add <= time[2] /\ key3 # None THEN "BC"
    ELSE "none"

\* a step that never subtracts
StepTimeAddStuckBackward(f) ==
    IF f
    THEN (IF anition_start THEN time_add + tempo ELSE time_add)
    ELSE time_add

\* the accumulator after the step at the end of animation_loop
StepTimeAdd(f) ==
    IF f
    THEN (IF anition_start THEN time_add + tempo ELSE time_add)
    ELSE (IF anition_start THEN time_add - tempo ELSE time_add)

\* np.array(MM).reshape((len(MM), 16))
Flatten(mm) == [i \in 1..Len(mm) |-> mm[i][1] \o mm[i][2] \o mm[i][3] \o mm[i][4]]

\* AnimationComponents.animation_loop(key1, key2, key3)
animation_loop ==
    LET seg == SegmentTest
        a == IF seg = "AB" THEN AlphaOf(time_add, time[0], time[1])
             ELSE IF seg = "BC" THEN AlphaOf(time_add, time[1], time[2])
             ELSE alpha
        mm == IF seg = "AB" THEN BlendedMM(IdleMM(key1), key1, key2, a, inter)
              ELSE IF seg = "BC" THEN BlendedMM(IdleMM(key1), key2, key3, a, inter)
              ELSE IdleMM(key1)
    IN /\ flag' = FlagAfter
       /\ segment' = seg
       /\ alpha' = a
       /\ MM' = mm
       /\ time_add' = StepTimeAdd(FlagAfter)
       /\ MM1Data' = Flatten(mm)
       /\ UNCHANGED <<tempo, anition_start, time, inter, key1, key2, key3>>


\* ---------------------------------------------------------------- matrices
\* util.identity()
util_identity == << <<1, 0, 0, 0>>, <<0, 1, 0, 0>>, <<0, 0, 1, 0>>, <<0, 0, 0, 1>> >>

\* util.translate(x, y, z)
util_translate(x, y, z) ==
    << <<1, 0, 0, x>>, <<0, 1, 0, y>>, <<0, 0, 1, z>>, <<0, 0, 0, 1>> >>

\* util.scale(s)
util_scale(s) ==
    << <<s, 0, 0, 0>>, <<0, s, 0, 0>>, <<0, 0, s, 0>>, <<0, 0, 0, 1>> >>

\* A @ B for 4x4 matrices
MatMul(A, B) ==
    [i \in 1..4 |-> [j \in 1..4 |->
        A[i][1] * B[1][j] + A[i][2] * B[2][j] + A[i][3] * B[3][j] + A[i][4] * B[4][j]]]

\* the local TRS matrices the scenes use
TRSChoices == { util_identity, util_translate(0, 0, -8), util_scale(2) }

\* ------------------------------------------------------------- components
\* BasicTransform(trs=m): l2world and l2cam start as the identity
BasicTransform(m) ==
    [type |-> "BasicTransform", trs |-> m, l2world |-> util_identity,
     l2cam |-> util_identity]

\* an update that takes only trs from its arguments
BasicTransform_updateTrsOnly(c, kwargs) ==
    [c EXCEPT !.trs = IF "trs" \in DOMAIN kwargs THEN kwargs["trs"] ELSE @]

\* BasicTransform.update(**kwargs): sets the matrices the call names
BasicTransform_update(c, kwargs) ==
    [c EXCEPT !.l2world = IF "l2world" \in DOMAIN kwargs THEN kwargs["l2world"] ELSE @,
              !.trs = IF "trs" \in DOMAIN kwargs THEN kwargs["trs"] ELSE @,
              !.l2cam = IF "l2cam" \in DOMAIN kwargs THEN kwargs["l2cam"] ELSE @]

\* Camera(projMatrix): root2cam starts as the identity
Camera(projMatrix) ==
    [type |-> "Camera", projMat |-> projMatrix, root2cam |-> util_identity]

\* an update that sets root2cam and the projection matrix from root2cam
Camera_updateBoth(c, kwargs) ==
    [c EXCEPT !.root2cam = IF "root2cam" \in DOMAIN kwargs THEN kwargs["root2cam"] ELSE @,
              !.projMat = IF "root2cam" \in DOMAIN kwargs THEN kwargs["root2cam"] ELSE @]

\* Camera.update(**kwargs): sets root2cam when the call names it
Camera_update(c, kwargs) ==
    [c EXCEPT !.root2cam = IF "root2cam" \in DOMAIN kwargs THEN kwargs["root2cam"] ELSE @]

\* ---------------------------------------------------------------- entities
\* the world as a value: what the operations below take and return
World == [entities |-> entities, parent |-> parent, children |-> children,
          comps |-> comps]

\* no entity: what getChild returns out of range
NoEntity == 0

\* Component.__init__: a fresh node is its own parent
FreshParent(e) == e

\* the proper ancestors of e along the parent references (at most fuel steps)
RECURSIVE AncestorsUpTo(_, _, _)
AncestorsUpTo(par, e, fuel) ==
    IF fuel = 0 \/ par[e] = e THEN {}
    ELSE {par[e]} \cup AncestorsUpTo(par, par[e], fuel - 1)

Ancestors(w, e) == AncestorsUpTo(w.parent, e, Cardinality(w.entities))

\* a sequence without the first occurrence of x (list.remove)
RECURSIVE SeqRemove(_, _)
SeqRemove(sq, x) ==
    IF sq = <<>> THEN <<>>
    ELSE IF Head(sq) = x THEN Tail(sq)
    ELSE <<Head(sq)>> \o SeqRemove(Tail(sq), x)

InSeq(sq, x) == \E i \in 1..Len(sq) : sq[i] = x

\* Entity.add(child): appended to the child list, the back-reference set
Entity_add(w, p, c) ==
    [w EXCEPT !.children[p] = Append(@, c), !.parent[c] = p]

\* Entity.remove(child): only the link is cut
Entity_remove(w, p, c) ==
    [w EXCEPT !.children[p] = SeqRemove(@, c), !.parent[c] = FreshParent(c)]

\* Entity.getChild(index), 1-based
Entity_getChild(w, e, index) ==
    IF index \in 1..Len(w.children[e]) THEN w.children[e][index] ELSE NoEntity

\* ECSSManager.createEntity(Entity(...)): the next id, no parent, no children
createEntity(w) ==
    LET id == Cardinality(w.entities) + 1
    IN [entities |-> w.entities \cup {id},
        parent |-> w.parent @@ (id :> FreshParent(id)),
        children |-> w.children @@ (id :> <<>>),
        comps |-> w.comps @@ (id :> <<>>)]

\* addEntityChild without the test for a cycle
addEntityChildUnchecked(w, p, c) ==
    [w |-> Entity_add(IF w.parent[c] # c THEN Entity_remove(w, w.parent[c], c)
                      ELSE w, p, c),
     err |-> "none"]

\* ECSSManager.addEntityChild(parent, child): a structural error when the
\* child is the parent or one of its ancestors; a child that has a parent
\* moves to the new one
addEntityChild(w, p, c) ==
    IF c = p \/ c \in Ancestors(w, p)
    THEN [w |-> w, err |-> "StructuralError"]
    ELSE [w |-> Entity_add(IF w.parent[c] # c
                           THEN Entity_remove(w, w.parent[c], c) ELSE w, p, c),
          err |-> "none"]

\* the loop with getChild(2) in place of getChild(1)
RECURSIVE DrainLoopSecond(_, _, _)
DrainLoopSecond(w, e, fuel) ==
    LET c == Entity_getChild(w, e, 2)
    IN IF c = NoEntity THEN [w |-> w, done |-> TRUE, n |-> 0]
       ELSE IF fuel = 0 THEN [w |-> w, done |-> FALSE, n |-> 0]
       ELSE LET r == DrainLoopSecond(Entity_remove(w, e, c), e, fuel - 1)
            IN [r EXCEPT !.n = @ + 1]

\* while entity.getChild(1) is not None: entity.remove(entity.getChild(1))
\* (done: the loop ended within fuel rounds; n: the rounds it made)
RECURSIVE DrainLoop(_, _, _)
DrainLoop(w, e, fuel) ==
    LET c == Entity_getChild(w, e, 1)
    IN IF c = NoEntity THEN [w |-> w, done |-> TRUE, n |-> 0]
       ELSE IF fuel = 0 THEN [w |-> w, done |-> FALSE, n |-> 0]
       ELSE LET r == DrainLoop(Entity_remove(w, e, c), e, fuel - 1)
            IN [r EXCEPT !.n = @ + 1]

\* remove_entity_children(entity)
remove_entity_children(w, e) == DrainLoop(w, e, Cardinality(w.entities) + 1)

\* ECSSManager.addComponent(entity, component): always appends
addComponent(w, e, c) == [w EXCEPT !.comps[e] = Append(@, c)]

\* BasicTransform.trs = value (the property setter): only trs changes
setTrs(w, e, j, m) == [w EXCEPT !.comps[e][j].trs = m]

\* BasicTransform.l2world = value (the property setter): only l2world changes
setL2World(w, e, j, m) == [w EXCEPT !.comps[e][j].l2world = m]

\* ---------------------------------------------------------------- systems
\* the l2world an entity inherits: that of the first BasicTransform of its
\* nearest ancestor that has one, the identity when there is none
RECURSIVE InheritedL2World(_, _, _)
InheritedL2World(w, e, fuel) ==
    IF fuel = 0 \/ w.parent[e] = e THEN util_identity
    ELSE LET p == w.parent[e]
             ts == {j \in 1..Len(w.comps[p]) : w.comps[p][j].type = "BasicTransform"}
         IN IF ts # {}
            THEN w.comps[p][CHOOSE j \in ts : \A k \in ts : j <= k].l2world
            ELSE InheritedL2World(w, p, fuel - 1)

\* TransformSystem.apply2BasicTransform: l2world <- parent's l2world @ trs
apply2BasicTransform(system, w, e, j) ==
    IF system = "TransformSystem"
    THEN [w EXCEPT !.comps[e][j] =
            BasicTransform_update(@,
                [k \in {"l2world"} |->
                    MatMul(InheritedL2World(w, e, Cardinality(w.entities)),
                           w.comps[e][j].trs)])]
    ELSE w

\* a GA handler that recomputes l2world from trs for whatever system calls it
apply2GATransformActs(system, w, e, j) ==
    [w EXCEPT !.comps[e][j].l2world = w.comps[e][j].trs]

\* System.apply2GATransform: no system in use has a handler
apply2GATransform(system, w, e, j) == w

\* the inverse of a matrix whose upper 3x3 block is diagonal with entries 1
\* or -1 (np.linalg.inv on the translations and reflections in use)
Inverse(M) ==
    [i \in 1..4 |-> [j \in 1..4 |->
        IF i = 4 \/ j # 4 THEN M[i][j] ELSE -(M[i][i] * M[i][4])]]

\* the accumulated l2world of the entity a camera sits on: that of its first
\* BasicTransform, the inherited one when it has none
CameraL2World(w, e) ==
    LET ts == {j \in 1..Len(w.comps[e]) : w.comps[e][j].type = "BasicTransform"}
    IN IF ts # {}
       THEN w.comps[e][CHOOSE j \in ts : \A k \in ts : j <= k].l2world
       ELSE InheritedL2World(w, e, Cardinality(w.entities))

\* CameraSystem.apply2Camera: root2cam <- inverse of the accumulated l2world
\* of the camera's entity; no other system has a handler
apply2Camera(system, w, e, j) ==
    IF system = "CameraSystem"
    THEN [w EXCEPT !.comps[e][j] =
            Camera_update(@, [k \in {"root2cam"} |-> Inverse(CameraL2World(w, e))])]
    ELSE w

\* the cameras of the world, as (entity, component index) pairs
Cameras(w) ==
    {p \in UNION {{<<e, j>> : j \in 1..Len(w.comps[e])} : e \in w.entities} :
        w.comps[p[1]][p[2]].type = "Camera"}

\* the camera whose matrices the camera system broadcasts
ActiveCamera(w) ==
    LET p == CHOOSE p \in Cameras(w) :
                 \A q \in Cameras(w) : p[1] < q[1] \/ (p[1] = q[1] /\ p[2] <= q[2])
    IN w.comps[p[1]][p[2]]

\* CameraSystem.applyCamera2BasicTransform: l2cam <- projMat @ root2cam @
\* l2world with the camera's matrices; no other system has a handler
applyCamera2BasicTransform(system, w, e, j) ==
    IF system = "CameraSystem" /\ Cameras(w) # {}
    THEN [w EXCEPT !.comps[e][j] =
            BasicTransform_update(@,
                [k \in {"l2cam"} |->
                    MatMul(ActiveCamera(w).projMat,
                           MatMul(ActiveCamera(w).root2cam, w.comps[e][j].l2world))])]
    ELSE w

\* BasicTransform.accept(system)
BasicTransform_accept(system, w, e, j) ==
    applyCamera2BasicTransform(system,
        apply2BasicTransform(system,
            apply2GATransform(system, w, e, j), e, j), e, j)

\* Camera.accept(system)
Camera_accept(system, w, e, j) == apply2Camera(system, w, e, j)

\* component.accept(system), dispatched on the class of the object; the
\* handlers of RenderMesh read the mesh, the other classes pass
Component_accept(system, w, e, j) ==
    CASE w.comps[e][j].type = "BasicTransform" -> BasicTransform_accept(system, w, e, j)
      [] w.comps[e][j].type = "Camera" -> Camera_accept(system, w, e, j)
      [] OTHER -> w

\* -------------------------------------------------------------- traversal
\* the entities below and including e, children first
RECURSIVE PostOrder(_, _, _)
RECURSIVE PostOrderSeq(_, _, _)
PostOrder(ch, e, fuel) ==
    (IF fuel = 0 THEN <<>> ELSE PostOrderSeq(ch, ch[e], fuel - 1)) \o <<e>>
PostOrderSeq(ch, es, fuel) ==
    IF es = <<>> THEN <<>>
    ELSE PostOrder(ch, Head(es), fuel) \o PostOrderSeq(ch, Tail(es), fuel)

\* the entities below and including e, parent first, children in list order
RECURSIVE PreOrder(_, _, _)
RECURSIVE PreOrderSeq(_, _, _)
PreOrder(ch, e, fuel) ==
    <<e>> \o (IF fuel = 0 THEN <<>> ELSE PreOrderSeq(ch, ch[e], fuel - 1))
PreOrderSeq(ch, es, fuel) ==
    IF es = <<>> THEN <<>>
    ELSE PreOrder(ch, Head(es), fuel) \o PreOrderSeq(ch, Tail(es), fuel)

\* every component of e accepts the system, in list order
RECURSIVE VisitComps(_, _, _, _)
VisitComps(system, w, e, j) ==
    IF j > Len(w.comps[e]) THEN w
    ELSE VisitComps(system, Component_accept(system, w, e, j), e, j + 1)

RECURSIVE VisitEntities(_, _, _, _)
VisitEntities(system, w, order, i) ==
    IF i > Len(order) THEN w
    ELSE VisitEntities(system, VisitComps(system, w, order[i], 1), order, i + 1)

\* the components visited along order: (entity, index) pairs
RECURSIVE VisitedPairs(_, _, _)
VisitedPairs(w, order, i) ==
    IF i > Len(order) THEN <<>>
    ELSE [j \in 1..Len(w.comps[order[i]]) |-> <<order[i], j>>]
         \o VisitedPairs(w, order, i + 1)

\* ECSSManager.traverse_visit(system, start): the world after the pass and
\* the components visited, in order
traverse_visit(system, w, start) ==
    LET order == PreOrder(w.children, start, Cardinality(w.entities))
    IN [w |-> VisitEntities(system, w, order, 1),
        log |-> VisitedPairs(w, order, 1)]

\* ECSSManager.traverse_visit_pre_camera(system, camera): the camera
\* component accepts the system
traverse_visit_pre_camera(system, w, cam) ==
    [w |-> Component_accept(system, w, cam[1], cam[2]), log |-> <<cam>>]

\* the root of the world: the first entity created
root == 1

\* ----------------------------------------------------------------- actions
Op(name, p, c, err, n, log) ==
    [op |-> name, parent |-> p, child |-> c, err |-> err, n |-> n, log |-> log]

SetWorld(w) ==
    /\ entities' = w.entities
    /\ parent' = w.parent
    /\ children' = w.children
    /\ comps' = w.comps

\* Scene(): an empty world
WorldInit ==
    /\ entities = {}
    /\ parent = <<>>
    /\ children = <<>>
    /\ comps = <<>>
    /\ lastOp = Op("Scene", 0, 0, "none", 0, <<>>)

DoCreateEntity ==
    /\ SetWorld(createEntity(World))
    /\ lastOp' = Op("createEntity", 0, Cardinality(entities) + 1, "none", 0, <<>>)

DoAddEntityChild(p, c) ==
    LET r == addEntityChild(World, p, c)
    IN /\ SetWorld(r.w)
       /\ lastOp' = Op("addEntityChild", p, c, r.err, 0, <<>>)

DoRemove(p, c) ==
    /\ InSeq(children[p], c)
    /\ SetWorld(Entity_remove(World, p, c))
    /\ lastOp' = Op("remove", p, c, "none", 0, <<>>)

DoRemoveEntityChildren(e) ==
    LET r == remove_entity_children(World, e)
    IN /\ SetWorld(r.w)
       /\ lastOp' = Op("remove_entity_children", e, 0,
                       IF r.done THEN "none" ELSE "running", r.n, <<>>)

\* scene.world.createEntity(...); scene.world.addEntityChild(parent, it)
DoAddEntity(p) ==
    LET w1 == createEntity(World)
        r == addEntityChild(w1, p, Cardinality(entities) + 1)
    IN /\ SetWorld(r.w)
       /\ lastOp' = Op("addEntity", p, Cardinality(entities) + 1, r.err, 0, <<>>)

DoAddComponent(e, c) ==
    /\ SetWorld(addComponent(World, e, c))
    /\ lastOp' = Op("addComponent", 0, 0, "none", 0, <<>>)

DoSetTrs(e, j, m) ==
    /\ SetWorld(setTrs(World, e, j, m))
    /\ lastOp' = Op("trs", 0, 0, "none", 0, <<>>)

DoSetL2World(e, j, m) ==
    /\ SetWorld(setL2World(World, e, j, m))
    /\ lastOp' = Op("l2world", 0, 0, "none", 0, <<>>)

DoTraversePreCamera(system, cam) ==
    LET r == traverse_visit_pre_camera(system, World, cam)
    IN /\ SetWorld(r.w)
       /\ lastOp' = Op("traverse_visit_pre_camera", cam[1], 0, "none", 0, r.log)

DoTraverse(system) ==
    LET r == traverse_visit(system, World, root)
    IN /\ root \in entities
       /\ SetWorld(r.w)
       /\ lastOp' = Op("traverse_visit", root, 0, "none", 0, r.log)

\* --------------------------------------------------------- feature wrappers
\* Coordinates are integers; np.linspace(a, b, n) is kept exact by scaling
\* its values by n - 1.  The homogeneous coordinate 1.0 is the number 1.
\* Colour components are counted in halves (0.5 is 1, 1.0 is 2).

\* what a call that raised returns in place of its arrays
Raised(e) == [raised |-> e]

\* the arrays a generate function returns: attributes are the arrays its
\* caller appends to vertex_attributes, in order (positions, colours and,
\* for the 3D plot, normals)
Arrays(attributes, indices) ==
    [raised |-> "none", attributes |-> attributes, indices |-> indices]

\* the numbers 1..n as an array
RangeFromOne(n) == [i \in 1..n |-> i]

\* range(n) as an array
Range(n) == [i \in 1..n |-> i - 1]

\* [row] * n
Repeat(row, n) == [i \in 1..n |-> row]

\* the scale of np.linspace(a, b, n)
LinScale(n) == IF n > 1 THEN n - 1 ELSE 1

\* np.linspace(a, b, n), every value times LinScale(n)
linspace(a, b, n) == [i \in 1..n |-> a * LinScale(n) + (i - 1) * (b - a)]

VSub(a, b) == [i \in 1..Len(a) |-> a[i] - b[i]]
VAdd(a, b) == [i \in 1..Len(a) |-> a[i] + b[i]]
VScale(k, a) == [i \in 1..Len(a) |-> k * a[i]]
Dot(a, b) == a[1] * b[1] + a[2] * b[2] + a[3] * b[3]
Cross(a, b) ==
    << a[2] * b[3] - a[3] * b[2], a[3] * b[1] - a[1] * b[3], a[1] * b[2] - a[2] * b[1] >>

Max2(a, b) == IF a >= b THEN a ELSE b
Min2(a, b) == IF a <= b THEN a ELSE b

\* -- bezier_base.py
separate_coordinates(coordinates) ==
    << [i \in 1..Len(coordinates) |-> coordinates[i][1]],
       [i \in 1..Len(coordinates) |-> coordinates[i][2]],
       [i \in 1..Len(coordinates) |-> coordinates[i][3]] >>

\* zip stops at the shortest of the three lists
combine_coordinates(coordinates) ==
    [i \in 1..Min2(Len(coordinates[1]), Min2(Len(coordinates[2]), Len(coordinates[3]))) |->
        <<coordinates[1][i], coordinates[2][i], coordinates[3][i]>>]

xyz_to_vertices(coords) == [i \in 1..Len(coords) |-> coords[i] \o <<1>>]

\* for coord in coordinates[1:-1]: vertices.extend([coord, coord])
RECURSIVE ExtendTwice(_)
ExtendTwice(coordinates) ==
    IF coordinates = <<>> THEN <<>>
    ELSE <<Head(coordinates), Head(coordinates)>> \o ExtendTwice(Tail(coordinates))

\* a conversion that doubles the first and the last point too
vertices_to_line_verticesAllTwice(coordinates) ==
    IF coordinates = <<>> THEN Raised("IndexError") ELSE ExtendTwice(coordinates)

\* the vertex list of a GL_LINES polyline; coordinates[0] of an empty list
\* raises IndexError
vertices_to_line_vertices(coordinates) ==
    IF coordinates = <<>> THEN Raised("IndexError")
    ELSE <<coordinates[1]>>
         \o ExtendTwice(SubSeq(coordinates, 2, Len(coordinates) - 1))
         \o <<coordinates[Len(coordinates)]>>

\* bezier.Curve.from_nodes(nodes).evaluate_multi(x_values): one value per
\* coordinate and sample; the curve runs from the first node to the last
\* (the blend of the two stands for the library's polynomial)
evaluate_multi(nodes, x_values, scale) ==
    [c \in 1..3 |->
        [k \in 1..Len(x_values) |->
            nodes[c][1] * (scale - x_values[k]) + nodes[c][Len(nodes[c])] * x_values[k]]]

bezier_color == <<1, 0, 2, 2>>

generate_bezier_data(bezier_control_nodes, num_points) ==
    LET bezier_curve == separate_coordinates(bezier_control_nodes)
        x_values == linspace(0, 1, num_points)
        bezier_points == evaluate_multi(bezier_curve, x_values, LinScale(num_points))
        bezier_points_xyz == combine_coordinates(bezier_points)
        line == vertices_to_line_vertices(xyz_to_vertices(bezier_points_xyz))
    IN IF line = Raised("IndexError") THEN line
       ELSE Arrays(<<line, Repeat(bezier_color, Len(line))>>, Range(Len(line)))

\* the markers of the control nodes (render_curve) and of the fitting nodes
\* (fit_plane)
nodes_color == <<1, 1, 2, 2>>

generate_nodes_data(nodes) ==
    LET v == xyz_to_vertices(nodes)
    IN Arrays(<<v, Repeat(nodes_color, Len(v))>>, Range(Len(v)))

\* -- plotting_base.py
\* eval(function, {x: ...}) for the functions in use, on an array
eval_f_x(function, x) ==
    [i \in 1..Len(x) |-> IF function = "x**2" THEN x[i] * x[i] ELSE x[i]]

\* eval(function, {x: ..., y: ...}) for the functions in use
eval_f_x_y(function, x, y) ==
    IF function = "x**2+y**2" THEN x * x + y * y ELSE x + y

plot2d_color == <<1, 0, 2, 2>>

\* for i in range(0, len(x)-2): append [x[i], y[i], 0, 1], [x[i+1], y[i+1], 0, 1]
RECURSIVE plot2d_loop(_, _, _)
plot2d_loop(x, y, i) ==
    IF i >= Len(x) - 2 THEN <<>>
    ELSE << <<x[i + 1], y[i + 1], 0, 1>>, <<x[i + 2], y[i + 2], 0, 1>> >>
         \o plot2d_loop(x, y, i + 1)

generate_plot2d_data(plot_boundaries, func_detail, f_x) ==
    LET x == linspace(plot_boundaries[1], plot_boundaries[2], func_detail)
        y == eval_f_x(f_x, x)
        plotting_vertices == plot2d_loop(x, y, 0)
    IN Arrays(<<plotting_vertices, Repeat(plot2d_color, Len(plotting_vertices))>>,
              Range(Len(plotting_vertices)))

plot3d_color == <<0, 2, 2, 2>>

\* the two triangles over the cell between x[l-1], x[l] and z[q-1], z[q]
\* (l, q as the loops count them, from 1)
plot3d_cell(x, z, f, q, l) ==
    LET P(a, b) == <<a, eval_f_x_y(f, a, b), b, 1>>
    IN << P(x[l], z[q]), P(x[l + 1], z[q]), P(x[l + 1], z[q + 1]),
          P(x[l], z[q]), P(x[l + 1], z[q + 1]), P(x[l], z[q + 1]) >>

RECURSIVE plot3d_loop(_, _, _, _, _)
plot3d_loop(x, z, f, q, l) ==
    IF q > Len(z) - 1 THEN <<>>
    ELSE IF l > Len(x) - 1 THEN plot3d_loop(x, z, f, q + 1, 1)
    ELSE plot3d_cell(x, z, f, q, l) \o plot3d_loop(x, z, f, q, l + 1)

\* the normal of the triangle a vertex belongs to (its direction only: the
\* division by the norm is left out)
plot3d_normals(v) ==
    [i \in 1..Len(v) |->
        LET t == 3 * ((i - 1) \div 3) + 1
        IN Cross(SubSeq(VSub(v[t + 1], v[t]), 1, 3), SubSeq(VSub(v[t + 2], v[t]), 1, 3))]

generate_plot3d_data(plot_boundaries, func_detail, f_x_y) ==
    LET x == linspace(plot_boundaries[1], plot_boundaries[2], func_detail)
        z == linspace(plot_boundaries[3], plot_boundaries[4], func_detail)
        triangles_vertices == plot3d_loop(x, z, f_x_y, 1, 1)
    IN Arrays(<<triangles_vertices,
                Repeat(plot3d_color, Len(triangles_vertices)),
                plot3d_normals(triangles_vertices)>>,
              Range(Len(triangles_vertices)))

\* -- planefitting_base.py
\* min x, max x, min y, max y, min z, max z of a non-empty list
RECURSIVE find_boundaries_from(_, _, _)
find_boundaries_from(coordinates, i, b) ==
    IF i > Len(coordinates) THEN b
    ELSE find_boundaries_from(coordinates, i + 1,
            << Min2(b[1], coordinates[i][1]), Max2(b[2], coordinates[i][1]),
               Min2(b[3], coordinates[i][2]), Max2(b[4], coordinates[i][2]),
               Min2(b[5], coordinates[i][3]), Max2(b[6], coordinates[i][3]) >>)

find_boundaries(coordinates) ==
    find_boundaries_from(coordinates, 2,
        << coordinates[1][1], coordinates[1][1], coordinates[1][2],
           coordinates[1][2], coordinates[1][3], coordinates[1][3] >>)

\* plane.project_point(node), for a plane with a unit normal
project_point(plane, node) ==
    VSub(node, VScale(Dot(VSub(node, plane.point), plane.normal), plane.normal))

projection_color == <<2, 2, 2, 2>>

generate_projection_lines(plane, fitting_nodes) ==
    LET lines_vertices ==
            [i \in 1..2 * Len(fitting_nodes) |->
                IF i % 2 = 1 THEN fitting_nodes[(i + 1) \div 2]
                ELSE project_point(plane, fitting_nodes[i \div 2])]
    IN Arrays(<<lines_vertices, Repeat(projection_color, Len(lines_vertices))>>,
              Range(Len(lines_vertices)))

planefitting_color == <<1, 0, 2, 2>>

generate_planefitting_data(plane, fitting_nodes) ==
    LET b == find_boundaries(fitting_nodes)
        diameter == Max2(b[2] - b[1], Max2(b[4] - b[3], b[6] - b[5]))
        global_x == <<1, 0, 0>>
        global_y == <<0, 1, 0>>
        normal == plane.normal
        plane_x == IF Dot(global_x, normal) < 1 THEN Cross(global_x, normal)
                   ELSE Cross(global_y, normal)
        plane_y == Cross(plane_x, normal)
        point == plane.point
        bottom_left == VSub(VSub(point, VScale(diameter, plane_x)), VScale(diameter, plane_y))
        top_left == VAdd(VSub(point, VScale(diameter, plane_x)), VScale(diameter, plane_y))
        bottom_right == VSub(VAdd(point, VScale(diameter, plane_x)), VScale(diameter, plane_y))
        top_right == VAdd(VAdd(point, VScale(diameter, plane_x)), VScale(diameter, plane_y))
        planefitting_vertices == <<bottom_left, top_left, bottom_right, top_right>>
    IN Arrays(<<planefitting_vertices,
                Repeat(planefitting_color, Len(planefitting_vertices))>>,
              <<0, 1, 3, 0, 3, 2>>)

\* ---------------------------------------------------------------- RenderMesh
\* RenderMesh(vertex_attributes=va, vertex_index=vi): an empty or missing
\* argument gives an empty list
RenderMesh(va, vi) ==
    [type |-> "RenderMesh",
     vertex_attributes |-> IF va = <<>> THEN <<>> ELSE va,
     vertex_index |-> IF vi = <<>> THEN <<>> ELSE vi]

\* mesh.vertex_attributes = value
RenderMesh_set_vertex_attributes(m, value) == [m EXCEPT !.vertex_attributes = value]

\* mesh.vertex_attributes.append(array)
RenderMesh_append_attribute(m, array) ==
    [m EXCEPT !.vertex_attributes = Append(@, array)]

\* mesh.vertex_index.append(array)
RenderMesh_append_index(m, array) == [m EXCEPT !.vertex_index = Append(@, array)]

\* the row counts of the attribute arrays of a mesh
RowCounts(m) == [i \in 1..Len(m.vertex_attributes) |-> Len(m.vertex_attributes[i])]

\* the systems whose RenderMesh handler reads the arrays of the mesh
MeshReaders == {"InitGLShaderSystem", "RenderGLShaderSystem"}

\* system.apply2RenderMesh(mesh): what the pass read of the mesh
apply2RenderMesh(system, m) ==
    IF system \in MeshReaders THEN RowCounts(m) ELSE <<>>

MeshOp(name, system, err, read) ==
    [op |-> name, system |-> system, err |-> err, read |-> read]

\* RenderMesh.accept(system)
RenderMesh_accept(system, m) ==
    MeshOp("accept", system, "none", apply2RenderMesh(system, m))

\* attribute arrays by row count
ArrayChoices == { Repeat(<<0, 0, 0, 1>>, n) : n \in 0..MaxRows }

\* the lists of attribute arrays a caller hands over at once
AttributeLists ==
    {<<>>} \cup { <<a>> : a \in ArrayChoices }
           \cup { <<a, b>> : a \in ArrayChoices, b \in ArrayChoices }

DoNewRenderMesh(va) ==
    /\ mesh' = RenderMesh(va, <<>>)
    /\ meshOp' = MeshOp("RenderMesh", "none", "none", <<>>)

DoSetVertexAttributes(va) ==
    /\ mesh' = RenderMesh_set_vertex_attributes(mesh, va)
    /\ meshOp' = MeshOp("vertex_attributes", "none", "none", <<>>)

DoAppendAttribute(array) ==
    /\ mesh' = RenderMesh_append_attribute(mesh, array)
    /\ meshOp' = MeshOp("append", "none", "none", <<>>)

DoMeshAccept(system) ==
    /\ mesh' = mesh
    /\ meshOp' = RenderMesh_accept(system, mesh)

\* ------------------------------------------------------ component variants
\* Keyframe(array_MM)
Keyframe(array_MM) == [type |-> "Keyframe", array_MM |-> array_MM]

\* AnimationComponents(): the fields with their default values
AnimationComponents ==
    [type |-> "AnimationComponents", alpha |-> 0, tempo |-> 2, time_add |-> 0]

\* BasicTransformDecorator(comp): a ComponentDecorator holding comp
BasicTransformDecorator(c) == [type |-> "BasicTransformDecorator", component |-> c]

\* the classes that inherit ComponentDecorator
Decorators == {"BasicTransformDecorator"}

\* the outcome of a method call: the component after it, what it raised,
\* the invocations made and the value returned
Result(c, raised, calls, ret) ==
    [c |-> c, raised |-> raised, calls |-> calls, ret |-> ret]

\* one invocation: depth 0 is the object called, depth d + 1 the component a
\* decorator at depth d wraps; a handler is invoked on the system
Called(depth, on, method, kwargs) ==
    [depth |-> depth, on |-> on, method |-> method, kwargs |-> kwargs]

\* calling def update(self) with named arguments: TypeError before the body
NoKwargs(kwargs) == IF DOMAIN kwargs = {} THEN "none" ELSE "TypeError"

\* RenderMesh.update(self): pass
RenderMesh_update(c, kwargs) == Result(c, NoKwargs(kwargs), <<>>, None)

\* Keyframe.update(self): pass
Keyframe_update(c, kwargs) == Result(c, NoKwargs(kwargs), <<>>, None)

\* AnimationComponents.update(self): pass
AnimationComponents_update(c, kwargs) == Result(c, NoKwargs(kwargs), <<>>, None)

RECURSIVE update(_, _, _)
\* a decorator update that calls the wrapped update without the arguments
ComponentDecorator_updateNoArgs(c, kwargs, depth) ==
    LET r == update(c.component, <<>>, depth + 1)
    IN Result([c EXCEPT !.component = r.c], r.raised, r.calls, None)

\* ComponentDecorator.update(**kwargs): self._component.update(**kwargs)
ComponentDecorator_update(c, kwargs, depth) ==
    LET r == update(c.component, kwargs, depth + 1)
    IN Result([c EXCEPT !.component = r.c], r.raised, r.calls, None)

\* component.update(**kwargs), dispatched on the class of the object
update(c, kwargs, depth) ==
    LET r == CASE c.type = "BasicTransform" ->
                    Result(BasicTransform_update(c, kwargs), "none", <<>>, None)
               [] c.type = "Camera" ->
                    Result(Camera_update(c, kwargs), "none", <<>>, None)
               [] c.type = "RenderMesh" -> RenderMesh_update(c, kwargs)
               [] c.type = "Keyframe" -> Keyframe_update(c, kwargs)
               [] c.type = "AnimationComponents" -> AnimationComponents_update(c, kwargs)
               [] c.type \in Decorators -> ComponentDecorator_update(c, kwargs, depth)
    IN [r EXCEPT !.calls = <<Called(depth, c.type, "update", kwargs)>> \o @]

RECURSIVE init(_, _)
\* BasicTransformDecorator.init(): self.component.init()
BasicTransformDecorator_init(c, depth) ==
    LET r == init(c.component, depth + 1)
    IN Result([c EXCEPT !.component = r.c], r.raised, r.calls, None)

\* component.init(): pass in every class but the decorators
init(c, depth) ==
    LET r == IF c.type \in Decorators THEN BasicTransformDecorator_init(c, depth)
             ELSE Result(c, "none", <<>>, None)
    IN [r EXCEPT !.calls = <<Called(depth, c.type, "init", <<>>)>> \o @]

\* Component.add(object): pass
Component_add(c, object) == Result(c, "none", <<>>, None)

\* Component.remove(object): pass
Component_remove(c, object) == Result(c, "none", <<>>, None)

\* a getChild that returns the component itself
Component_getChildSelf(c, index) == Result(c, "none", <<>>, c)

\* Component.getChild(index): return None
Component_getChild(c, index) == Result(c, "none", <<>>, None)

\* the classes whose __iter__ returns CompNullIterator(self)
NullIterated == {"BasicTransform", "Camera", "RenderMesh", "Keyframe"}

\* component.__iter__(): a CompNullIterator in the classes that override it,
\* the component itself (which has no __next__) in the others
Component_iter(c) ==
    IF c.type \in NullIterated THEN [type |-> "CompNullIterator", comp |-> c] ELSE c

\* CompNullIterator.__next__(): return None
CompNullIterator_next(it) == Result(it.comp, "none", <<>>, None)

\* for x in component: pass -- one round per value __next__ returns, until it
\* raises StopIteration (done: the loop ended within fuel rounds; n: the
\* rounds it made); iter() of an object without __next__ raises TypeError
RECURSIVE ForRounds(_, _)
ForRounds(it, fuel) ==
    LET r == CompNullIterator_next(it)
    IN IF r.raised = "StopIteration" THEN [done |-> TRUE, n |-> 0]
       ELSE IF fuel = 0 THEN [done |-> FALSE, n |-> 0]
       ELSE [ForRounds(it, fuel - 1) EXCEPT !.n = @ + 1]

ForLoop(c) ==
    LET it == Component_iter(c)
    IN IF it.type # "CompNullIterator"
       THEN Result(c, "TypeError", <<>>, [done |-> TRUE, n |-> 0])
       ELSE Result(c, "none", <<>>, ForRounds(it, MaxRounds))

\* a world of one entity that holds the component
Single(c) ==
    [entities |-> {root}, parent |-> (root :> root), children |-> (root :> <<>>),
     comps |-> (root :> <<c>>)]

\* the handlers the accept of a class invokes on the system, in order
HandlerCalls(type) ==
    CASE type = "BasicTransform" ->
            <<"apply2GATransform", "apply2BasicTransform", "applyCamera2BasicTransform">>
      [] type = "Camera" -> <<"apply2Camera">>
      [] type = "RenderMesh" -> <<"apply2RenderMesh">>
      [] OTHER -> <<>>

\* BasicTransformDecorator.accept(system): pass
BasicTransformDecorator_accept(system, c, depth) == Result(c, "none", <<>>, None)

\* component.accept(system) on a component of its own, dispatched on its class
accept(system, c, depth) ==
    LET r == IF c.type \in Decorators
             THEN BasicTransformDecorator_accept(system, c, depth)
             ELSE Result(Component_accept(system, Single(c), root, 1).comps[root][1],
                         "none",
                         [i \in 1..Len(HandlerCalls(c.type)) |->
                             Called(depth, system, HandlerCalls(c.type)[i], <<>>)],
                         None)
    IN [r EXCEPT !.calls = <<Called(depth, c.type, "accept", <<>>)>> \o @]

\* the systems of the examples and the base class System
Systems ==
    {"System", "TransformSystem", "CameraSystem", "InitGLShaderSystem",
     "RenderGLShaderSystem"}

\* the classes for which a system has a handler of its own
Handled(system) ==
    CASE system = "TransformSystem" -> {"BasicTransform"}
      [] system = "CameraSystem" -> {"BasicTransform", "Camera"}
      [] system \in MeshReaders -> {"RenderMesh"}
      [] OTHER -> {}

\* the matrices passed as named arguments
ArgMatrices == { util_translate(0, 0, -8), util_scale(2) }

\* the names a call may use: the recognized ones and one that no class knows
UpdateKeys == {"l2world", "trs", "l2cam", "root2cam", "colour"}

\* named arguments: any set of names, neighbouring names with different values
KwargChoices ==
    { [k \in K |-> IF k \in {"l2world", "l2cam", "colour"} THEN m[1] ELSE m[2]] :
        K \in SUBSET UpdateKeys,
        m \in { <<util_translate(0, 0, -8), util_scale(2)>>,
                <<util_scale(2), util_translate(0, 0, -8)>> } }

\* the components the scenes create, and decorators around them
LeafChoices ==
    { BasicTransform(m) : m \in TRSChoices } \cup { Camera(m) : m \in ArgMatrices }
    \cup { RenderMesh(<<>>, <<>>), Keyframe(<<>>), AnimationComponents }

ComponentChoices ==
    LeafChoices \cup { BasicTransformDecorator(c) : c \in LeafChoices }
    \cup { BasicTransformDecorator(BasicTransformDecorator(BasicTransform(m))) :
             m \in TRSChoices }

\* a world whose root has n children
RECURSIVE WithChildren(_)
WithChildren(n) ==
    IF n = 0
    THEN createEntity([entities |-> {}, parent |-> <<>>, children |-> <<>>,
                       comps |-> <<>>])
    ELSE LET w == createEntity(WithChildren(n - 1))
         IN addEntityChild(w, root, Cardinality(w.entities)).w

CompOp(op, system, kwargs, r) ==
    [op |-> op, system |-> system, kwargs |-> kwargs, raised |-> r.raised,
     calls |-> r.calls, ret |-> r.ret]

DoNewComponent(c) ==
    /\ comp' = c
    /\ compOp' = CompOp("new", "none", <<>>, Result(c, "none", <<>>, None))

DoUpdate(kwargs) ==
    LET r == update(comp, kwargs, 0)
    IN /\ comp' = r.c
       /\ compOp' = CompOp("update", "none", kwargs, r)

DoInit ==
    LET r == init(comp, 0)
    IN /\ comp' = r.c
       /\ compOp' = CompOp("init", "none", <<>>, r)

DoAccept(system) ==
    LET r == accept(system, comp, 0)
    IN /\ comp' = r.c
       /\ compOp' = CompOp("accept", system, <<>>, r)

DoAdd(object) ==
    LET r == Component_add(comp, object)
    IN /\ comp' = r.c
       /\ compOp' = CompOp("add", "none", <<object>>, r)

DoRemoveObject(object) ==
    LET r == Component_remove(comp, object)
    IN /\ comp' = r.c
       /\ compOp' = CompOp("remove", "none", <<object>>, r)

DoGetChild(index) ==
    LET r == Component_getChild(comp, index)
    IN /\ comp' = r.c
       /\ compOp' = CompOp("getChild", "none", <<index>>, r)

DoFor ==
    /\ comp' = comp
    /\ compOp' = CompOp("for", "none", <<>>, ForLoop(comp))

\* entity.getChild(index) on an entity with n children
DoEntityGetChild(n, index) ==
    /\ comp' = comp
    /\ compOp' = CompOp("Entity.getChild", "none", <<n, index>>,
                        Result(comp, "none", <<>>,
                               Entity_getChild(WithChildren(n), root, index)))

ComponentInit ==
    /\ comp = BasicTransform(util_identity)
    /\ compOp = CompOp("new", "none", <<>>,
                       Result(BasicTransform(util_identity), "none", <<>>, None))

\* ------------------------------------------------------ wrapper arguments
NodeChoices == { <<0, 0, 0>>, <<1, 0, 1>>, <<-1, 1, 0>> }

NodeLists == UNION { [1..n -> NodeChoices] : n \in 1..MaxNodes }

PlaneChoices ==
    { [point |-> <<0, 0, 0>>, normal |-> <<0, 0, 1>>],
      [point |-> <<0, 1, 0>>, normal |-> <<1, 0, 0>>] }

FunctionChoices ==
    { [f_x |-> "x", f_x_y |-> "x+y"], [f_x |-> "x**2", f_x_y |-> "x**2+y**2"] }

BoundaryChoices == { <<1, -1, 1, -1>>, <<2, 0, 3, 0>> }

\* the arguments the modules start with
InputDefault ==
    [nodes |-> << <<0, 0, 0>>, <<1, 0, 1>>, <<-1, 1, 0>> >>,
     detail |-> MaxDetail,
     functions |-> [f_x |-> "x**2", f_x_y |-> "x**2+y**2"],
     plot_boundaries |-> <<1, -1, 1, -1>>,
     plane |-> [point |-> <<0, 0, 0>>, normal |-> <<0, 0, 1>>]]

NoData == [wrapper |-> "none", out |-> Raised("none")]

MeshInit ==
    /\ mesh = RenderMesh(<<>>, <<>>)
    /\ meshOp = MeshOp("RenderMesh", "none", "none", <<>>)

\* ------------------------------------------------------ two instances
\* the list the def statement of __init__ evaluates `[0, 100, 200]` to, once:
\* the object every call without a time argument binds `time` to
DefaultTimeList == 0

\* AnimationComponents(time=t): the fields __init__ sets; time is the
\* reference it was given
NewAnimationComponents(t) ==
    [alpha |-> <<0, 1>>, tempo |-> 2, time_add |-> 0, anition_start |-> TRUE,
     time |-> t, flag |-> TRUE, inter |-> "SLERP", MM |-> <<>>]

Instances == {"a", "b"}

\* n: the operations made so far
InstOp(name, on, n) == [op |-> name, on |-> on, n |-> n]

\* a = AnimationComponents(); b = AnimationComponents()
InstancesInit ==
    /\ lists = (DefaultTimeList :> [i \in 0..2 |-> 100 * i])
    /\ anims = [x \in Instances |-> NewAnimationComponents(DefaultTimeList)]
    /\ instOp = InstOp("AnimationComponents", "none", 0)

\* -------------------------------------------------------- shader lists
\* the empty lists the example hands to the wrappers
RenderInit ==
    /\ shaders = [all_shaders |-> <<>>, shader_2d |-> <<>>, shader_3d |-> <<>>]
    /\ renderOp = [op |-> "none", entity |-> 0, raised |-> "none"]

\* nothing called yet, the default arguments
RestInit ==
    /\ input = InputDefault
    /\ data = NoData
    /\ MeshInit
    /\ ComponentInit
    /\ pc = "Scene"
    /\ InstancesInit
    /\ RenderInit

\* a wrapper called with chosen arguments
InputInitAny ==
    /\ input \in [nodes : NodeLists, detail : 0..MaxDetail, functions : FunctionChoices,
                  plot_boundaries : BoundaryChoices, plane : PlaneChoices]
    /\ data = NoData
    /\ MeshInit
    /\ ComponentInit
    /\ pc = "Scene"
    /\ InstancesInit
    /\ RenderInit

Call(wrapper, out) ==
    /\ data' = [wrapper |-> wrapper, out |-> out]
    /\ UNCHANGED <<input, mesh, meshOp, compVars, pc, instVars, renderVars>>

\* ------------------------------------------------------ keyframes in use
PoseA == Rigid(RotId, <<0, 0, 0>>)
PoseB == Rigid(RotZ180, <<2, 0, -4>>)
PoseC == Rigid(RotX180, <<0, 6, 2>>)

KeyframeSamples == { <<PoseA>>, <<PoseB>>, <<PoseC, PoseA>>, <<PoseB, PoseC>> }

TimeTriples ==
    { [i \in 0..2 |-> s[i + 1]] :
        s \in { s \in (0..MaxTime) \X (0..MaxTime) \X (0..MaxTime) :
                    s[1] < s[2] /\ s[2] < s[3] } }

\* AnimationComponents() with the constructor's defaults, and the caller's
\* two keyframes
AnimInitDefault ==
    /\ alpha = <<0, 1>>
    /\ tempo = 2
    /\ time_add = 0
    /\ anition_start = TRUE
    /\ time = [i \in 0..2 |-> 100 * i]
    /\ flag = TRUE
    /\ inter = "SLERP"
    /\ MM = <<>>
    /\ key1 = <<PoseA>>
    /\ key2 = <<PoseB>>
    /\ key3 = None
    /\ MM1Data = <<>>
    /\ segment = "none"
    /\ ticks = 0

\* AnimationComponents(...) with chosen arguments
AnimInitAny ==
    /\ alpha = <<0, 1>>
    /\ tempo \in 1..MaxTempo
    /\ time_add \in 0..MaxTime
    /\ anition_start \in BOOLEAN
    /\ time \in TimeTriples
    /\ flag \in BOOLEAN
    /\ inter \in {"LERP", "SLERP"}
    /\ MM = <<>>
    /\ key1 \in KeyframeSamples
    /\ key2 \in {k \in KeyframeSamples : Len(k) = Len(key1)}
    /\ key3 \in {k \in KeyframeSamples : Len(k) = Len(key1)} \cup {None}
    /\ MM1Data = <<>>
    /\ segment = "none"
    /\ ticks = 0

\* AnimationComponents(...) with chosen arguments, playback on and the
\* accumulator inside the range the call plays: [time[0], time[1]] with two
\* keyframes, [time[0], time[2]] with three
AnimInitPlayback ==
    /\ alpha = <<0, 1>>
    /\ tempo \in 1..MaxTempo
    /\ anition_start = TRUE
    /\ time \in TimeTriples
    /\ flag \in BOOLEAN
    /\ inter \in {"LERP", "SLERP"}
    /\ MM = <<>>
    /\ key1 \in KeyframeSamples
    /\ key2 \in {k \in KeyframeSamples : Len(k) = Len(key1)}
    /\ key3 \in {k \in KeyframeSamples : Len(k) = Len(key1)} \cup {None}
    /\ time_add \in time[0]..(IF key3 = None THEN time[1] ELSE time[2])
    /\ MM1Data = <<>>
    /\ segment = "none"
    /\ ticks = 0

\* ------------------------------------------------------- specifications
\* one frame of the caller: one call of animation_loop
Tick == animation_loop /\ UNCHANGED <<ticks, worldVars, restVars>>

\* the same call, counted
CountedTick ==
    ticks < MaxTicks /\ animation_loop /\ ticks' = ticks + 1 /\ UNCHANGED <<worldVars, restVars>>

AnimInit == AnimInitAny /\ WorldInit /\ RestInit

SpecAnim == AnimInit /\ [][Tick]_vars

\* playback: the caller calls animation_loop once per frame, for ever
PlaybackInit == AnimInitPlayback /\ WorldInit /\ RestInit

SpecPlayback == PlaybackInit /\ [][Tick]_vars

\* what one call does to the flag and to the accumulator: the flag update,
\* then the step
Playhead == flag' = FlagAfter /\ time_add' = StepTimeAdd(FlagAfter)

\* the main loop of the caller keeps running: animation_loop has no guard, so
\* a call that moves the flag or the accumulator is eventually made
SpecPlaybackFair == PlaybackInit /\ [][Tick]_vars /\ WF_<<flag, time_add>>(Playhead)

PingPongInit == AnimInitDefault /\ WorldInit /\ RestInit

SpecPingPong == PingPongInit /\ [][CountedTick]_vars

\* the entity tree under createEntity, addEntityChild, remove and the drain
\* loop of the feature wrappers
TreeCreate ==
    Cardinality(entities) < MaxEntities /\ DoCreateEntity /\ UNCHANGED <<animVars, restVars>>

TreeAddChild ==
    \E p \in entities : \E c \in entities : DoAddEntityChild(p, c) /\ UNCHANGED <<animVars, restVars>>

TreeRemove ==
    \E p \in entities : \E c \in entities : DoRemove(p, c) /\ UNCHANGED <<animVars, restVars>>

TreeDrain ==
    \E e \in entities : DoRemoveEntityChildren(e) /\ UNCHANGED <<animVars, restVars>>

TreeNext == TreeCreate \/ TreeAddChild \/ TreeRemove \/ TreeDrain

TreeInit == AnimInitDefault /\ WorldInit /\ RestInit

SpecTree == TreeInit /\ [][TreeNext]_vars

\* a scene built the way the examples build theirs (a root, then entities
\* attached as they are created, a BasicTransform added to some), propagated
\* by traversals with the transform system
SceneCreateRoot ==
    entities = {} /\ DoCreateEntity /\ UNCHANGED <<animVars, restVars>>

SceneAddEntity ==
    \E p \in entities :
        /\ Cardinality(entities) < MaxSceneEntities
        /\ DoAddEntity(p)
        /\ UNCHANGED <<animVars, restVars>>

SceneAddComponent ==
    \E e \in entities : \E m \in TRSChoices :
        /\ comps[e] = <<>>
        /\ DoAddComponent(e, BasicTransform(m))
        /\ UNCHANGED <<animVars, restVars>>

SceneSetTrs ==
    \E e \in entities : \E m \in TRSChoices :
        /\ comps[e] # <<>>
        /\ comps[e][1].trs # m
        /\ DoSetTrs(e, 1, m)
        /\ UNCHANGED <<animVars, restVars>>

SceneTraverse == DoTraverse("TransformSystem") /\ UNCHANGED <<animVars, restVars>>

SceneNext ==
    \/ SceneCreateRoot
    \/ SceneAddEntity
    \/ SceneAddComponent
    \/ SceneSetTrs
    \/ SceneTraverse

SceneInit == AnimInitDefault /\ WorldInit /\ RestInit

SpecScene == SceneInit /\ [][SceneNext]_vars

\* the generate functions of the feature wrappers on chosen arguments
CallBezier ==
    Call("generate_bezier_data", generate_bezier_data(input.nodes, input.detail))
    /\ UNCHANGED <<animVars, worldVars, compVars, pc, instVars, renderVars>>

CallNodes ==
    Call("generate_nodes_data", generate_nodes_data(input.nodes))
    /\ UNCHANGED <<animVars, worldVars, compVars, pc, instVars, renderVars>>

CallPlot2d ==
    Call("generate_plot2d_data",
         generate_plot2d_data(input.plot_boundaries, input.detail, input.functions.f_x))
    /\ UNCHANGED <<animVars, worldVars, compVars, pc, instVars, renderVars>>

CallPlot3d ==
    Call("generate_plot3d_data",
         generate_plot3d_data(input.plot_boundaries, input.detail, input.functions.f_x_y))
    /\ UNCHANGED <<animVars, worldVars, compVars, pc, instVars, renderVars>>

CallPlanefitting ==
    Call("generate_planefitting_data", generate_planefitting_data(input.plane, input.nodes))
    /\ UNCHANGED <<animVars, worldVars, compVars, pc, instVars, renderVars>>

CallProjectionLines ==
    Call("generate_projection_lines", generate_projection_lines(input.plane, input.nodes))
    /\ UNCHANGED <<animVars, worldVars, compVars, pc, instVars, renderVars>>

\* vertices_to_line_vertices(xyz_to_vertices(points)) with its colours and
\* indices, on the points given
CallLineVertices ==
    LET vertices == vertices_to_line_vertices(xyz_to_vertices(input.nodes))
    IN Call("vertices_to_line_vertices",
            Arrays(<<vertices, Repeat(bezier_color, Len(vertices))>>,
                   Range(Len(vertices))))
       /\ UNCHANGED <<animVars, worldVars, compVars, pc, instVars, renderVars>>

MeshDataNext ==
    \/ CallLineVertices
    \/ CallBezier
    \/ CallNodes
    \/ CallPlot2d
    \/ CallPlot3d
    \/ CallPlanefitting
    \/ CallProjectionLines

MeshDataInit == AnimInitDefault /\ WorldInit /\ InputInitAny

SpecMeshData == MeshDataInit /\ [][MeshDataNext]_vars

\* the scene of the animation example: RooT (1), Entity1 (2) below it with a
\* transform, Entity_Camera (3) below Entity1 with a transform and the camera,
\* Object (4) below RooT with a transform, a mesh and a keyframe
ExampleScene ==
    LET w1 == createEntity(createEntity([entities |-> {}, parent |-> <<>>,
                                         children |-> <<>>, comps |-> <<>>]))
        w2 == addComponent(addEntityChild(w1, 1, 2).w, 2,
                           BasicTransform(util_translate(0, 0, -8)))
        w3 == addEntityChild(createEntity(w2), 2, 3).w
        w4 == addComponent(addComponent(w3, 3, BasicTransform(util_identity)), 3,
                           Camera(util_scale(2)))
        w5 == addEntityChild(createEntity(w4), 1, 4).w
    IN addComponent(addComponent(addComponent(w5, 4, BasicTransform(util_scale(2))),
                                 4, RenderMesh(<<>>, <<>>)), 4, Keyframe(<<>>))

\* orthoCam: the camera component handed to the camera-only pass
orthoCam == <<3, 2>>

\* the matrices the l2world of a transform is set to
L2WorldChoices == { util_identity, util_translate(0, 0, -8), util_translate(0, 0, 8) }

\* a main loop that runs the general camera pass before the camera-only pass
NextCallCameraFirst(at) ==
    CASE at = "Scene" -> "init"
      [] at = "init" -> "render"
      [] at = "render" -> "renderUpdate"
      [] at = "renderUpdate" -> "camUpdate"
      [] at = "camUpdate" -> "pre_camera"
      [] at = "pre_camera" -> "render"

\* the order of the calls of the main program: the scene is built, the init
\* pass runs once, then each round of the loop calls scene.render(), the
\* render pass, the camera-only pass and the general camera pass
NextCall(at) ==
    CASE at = "Scene" -> "init"
      [] at = "init" -> "render"
      [] at = "render" -> "renderUpdate"
      [] at = "renderUpdate" -> "pre_camera"
      [] at = "pre_camera" -> "camUpdate"
      [] at = "camUpdate" -> "render"

FrameBuildScene ==
    /\ pc = "Scene"
    /\ SetWorld(ExampleScene)
    /\ lastOp' = Op("addComponent", 0, 0, "none", 0, <<>>)
    /\ pc' = NextCall(pc)
    /\ UNCHANGED <<animVars, meshVars, compVars, instVars, renderVars>>

FrameInitPass ==
    /\ pc = "init"
    /\ DoTraverse("InitGLShaderSystem")
    /\ pc' = NextCall(pc)
    /\ UNCHANGED <<animVars, meshVars, compVars, instVars, renderVars>>

\* the GUI drawn by scene.render() changes the trs of a transform
FrameSetTrs ==
    \E e \in entities : \E m \in { util_identity, util_translate(0, 0, -8) } :
        /\ pc = "render"
        /\ comps[e] # <<>>
        /\ comps[e][1].trs # m
        /\ DoSetTrs(e, 1, m)
        /\ UNCHANGED <<animVars, restVars>>

\* the l2world of a transform is set between two rounds of the loop
FrameSetL2World ==
    \E e \in entities : \E m \in L2WorldChoices :
        /\ pc = "render"
        /\ comps[e] # <<>>
        /\ comps[e][1].l2world # m
        /\ DoSetL2World(e, 1, m)
        /\ UNCHANGED <<animVars, restVars>>

FrameRender ==
    /\ pc = "render"
    /\ lastOp' = Op("render", 0, 0, "none", 0, <<>>)
    /\ pc' = NextCall(pc)
    /\ UNCHANGED <<animVars, entities, parent, children, comps, meshVars, compVars,
                 instVars, renderVars>>

FrameRenderUpdate ==
    /\ pc = "renderUpdate"
    /\ DoTraverse("RenderGLShaderSystem")
    /\ pc' = NextCall(pc)
    /\ UNCHANGED <<animVars, meshVars, compVars, instVars, renderVars>>

FramePreCamera ==
    /\ pc = "pre_camera"
    /\ DoTraversePreCamera("CameraSystem", orthoCam)
    /\ pc' = NextCall(pc)
    /\ UNCHANGED <<animVars, meshVars, compVars, instVars, renderVars>>

FrameCamUpdate ==
    /\ pc = "camUpdate"
    /\ DoTraverse("CameraSystem")
    /\ pc' = NextCall(pc)
    /\ UNCHANGED <<animVars, meshVars, compVars, instVars, renderVars>>

FrameNext ==
    \/ FrameBuildScene
    \/ FrameInitPass
    \/ FrameSetTrs
    \/ FrameSetL2World
    \/ FrameRender
    \/ FrameRenderUpdate
    \/ FramePreCamera
    \/ FrameCamUpdate

FrameInit == AnimInitDefault /\ WorldInit /\ RestInit

SpecFrame == FrameInit /\ [][FrameNext]_vars

\* one component object: created, updated, initialised, visited by systems
\* and asked for children
CompCreate ==
    \E c \in ComponentChoices :
        DoNewComponent(c) /\ UNCHANGED <<animVars, worldVars, meshVars, pc, instVars, renderVars>>

CompUpdate ==
    \E kwargs \in KwargChoices :
        DoUpdate(kwargs) /\ UNCHANGED <<animVars, worldVars, meshVars, pc, instVars, renderVars>>

CompCallInit == DoInit /\ UNCHANGED <<animVars, worldVars, meshVars, pc, instVars, renderVars>>

CompAccept ==
    \E system \in Systems :
        DoAccept(system) /\ UNCHANGED <<animVars, worldVars, meshVars, pc, instVars, renderVars>>

CompAdd ==
    \E object \in LeafChoices :
        DoAdd(object) /\ UNCHANGED <<animVars, worldVars, meshVars, pc, instVars, renderVars>>

CompRemove ==
    \E object \in LeafChoices :
        DoRemoveObject(object) /\ UNCHANGED <<animVars, worldVars, meshVars, pc, instVars, renderVars>>

CompGetChild ==
    \E index \in -1..MaxEntities :
        DoGetChild(index) /\ UNCHANGED <<animVars, worldVars, meshVars, pc, instVars, renderVars>>

CompEntityGetChild ==
    \E n \in 0..(MaxEntities - 1) : \E index \in -1..MaxEntities :
        DoEntityGetChild(n, index) /\ UNCHANGED <<animVars, worldVars, meshVars, pc, instVars, renderVars>>

CompFor == DoFor /\ UNCHANGED <<animVars, worldVars, meshVars, pc, instVars, renderVars>>

ComponentNext ==
    \/ CompFor
    \/ CompCreate
    \/ CompUpdate
    \/ CompCallInit
    \/ CompAccept
    \/ CompAdd
    \/ CompRemove
    \/ CompGetChild
    \/ CompEntityGetChild

ComponentSpecInit == AnimInitDefault /\ WorldInit /\ RestInit

SpecComponent == ComponentSpecInit /\ [][ComponentNext]_vars

\* a RenderMesh under its constructor, the vertex_attributes setter, append
\* and the passes that read it
MeshCreate ==
    \E va \in AttributeLists :
        DoNewRenderMesh(va) /\ UNCHANGED <<animVars, worldVars, input, data, compVars, pc, instVars, renderVars>>

MeshSetAttributes ==
    \E va \in AttributeLists :
        DoSetVertexAttributes(va) /\ UNCHANGED <<animVars, worldVars, input, data, compVars, pc, instVars, renderVars>>

MeshAppend ==
    \E array \in ArrayChoices :
        /\ Len(mesh.vertex_attributes) < MaxAttributes
        /\ DoAppendAttribute(array)
        /\ UNCHANGED <<animVars, worldVars, input, data, compVars, pc, instVars, renderVars>>

MeshAccept ==
    \E system \in MeshReaders \cup {"TransformSystem"} :
        DoMeshAccept(system) /\ UNCHANGED <<animVars, worldVars, input, data, compVars, pc, instVars, renderVars>>

RenderMeshNext == MeshCreate \/ MeshSetAttributes \/ MeshAppend \/ MeshAccept

RenderMeshInit == AnimInitDefault /\ WorldInit /\ RestInit

SpecRenderMesh == RenderMeshInit /\ [][RenderMeshNext]_vars

\* ------------------------------------------------------------------ claims
\* a keyframe's bone matrices as pose matrices (fixed-point)
Scaled(k) == [i \in 1..Len(k) |-> [r \in 1..4 |-> [c \in 1..4 |-> QS * k[i][r][c]]]]

\* C1: after a full traversal from the root with the transform system, every
\* transform's l2world is the l2world of its parent entity times its own trs,
\* and the root's l2world is its own trs (an ancestor without a transform
\* passes the inherited matrix on unchanged); in particular, in the scene of
\* a root R, a child A with trs = translate(0,0,-8) and a child B of A with
\* the identity trs, A.l2world and B.l2world are both translate(0,0,-8).
C1_L2WorldAfterTraversal ==
    lastOp.op = "traverse_visit" =>
        /\ \A e \in entities :
              comps[e] # <<>> =>
                  LET T == comps[e][1]
                      P == parent[e]
                  IN /\ P = e => T.l2world = T.trs
                     /\ (P # e /\ comps[P] # <<>>) =>
                            T.l2world = MatMul(comps[P][1].l2world, T.trs)
                     /\ (P # e /\ comps[P] = <<>>) =>
                            T.l2world =
                                MatMul(InheritedL2World(World, e, Cardinality(entities)),
                                       T.trs)
        /\ ( /\ entities = {1, 2, 3}
             /\ children[1] = <<2>>
             /\ children[2] = <<3>>
             /\ comps[1] = <<>>
             /\ comps[2] # <<>>
             /\ comps[3] # <<>>
             /\ comps[2][1].trs = util_translate(0, 0, -8)
             /\ comps[3][1].trs = util_identity )
           => /\ comps[2][1].l2world = util_translate(0, 0, -8)
              /\ comps[3][1].l2world = util_translate(0, 0, -8)

C1_Witness ==
    /\ lastOp.op = "traverse_visit"
    /\ entities = {1, 2, 3}
    /\ children[1] = <<2>>
    /\ children[2] = <<3>>
    /\ comps[1] = <<>>
    /\ comps[2] # <<>>
    /\ comps[3] # <<>>
    /\ comps[2][1].trs = util_translate(0, 0, -8)
    /\ comps[3][1].trs = util_identity
    /\ comps[3][1].l2world = util_translate(0, 0, -8)
    /\ comps[3][1].l2world # comps[3][1].trs

\* C2: the components a traversal from the root visits come parent first (no
\* component of an entity is visited after a component of one of its
\* descendants), the children of one entity in the order of its child list,
\* which is the order of attachment; and traversing the tree the traversal
\* left behind visits the same components in the same sequence.
C2_VisitOrder ==
    /\ [](lastOp.op = "traverse_visit" =>
            LET log == lastOp.log
            IN /\ \A i \in 1..Len(log) : \A j \in 1..Len(log) :
                     log[i][1] \in Ancestors(World, log[j][1]) => i < j
               /\ \A p \in entities :
                     \A a \in 1..Len(children[p]) : \A b \in 1..Len(children[p]) :
                        a < b =>
                           \A i \in 1..Len(log) : \A j \in 1..Len(log) :
                              (log[i][1] = children[p][a] /\ log[j][1] = children[p][b])
                                 => i < j)
    /\ [][lastOp'.op = "traverse_visit" =>
            lastOp'.log = traverse_visit("TransformSystem", World', root).log]_vars

C2_Witness ==
    /\ lastOp.op = "traverse_visit"
    /\ children[1] = <<2, 3>>
    /\ lastOp.log = << <<1, 1>>, <<2, 1>>, <<3, 1>> >>

\* C3: with the constructor's defaults (time boundaries [0,100,200], tempo 2,
\* accumulator 0, flag forward, playback on) and two keyframes, the
\* accumulator after n calls is the triangle wave of period 100 calls: it is
\* 100 exactly after 50, 150, ... calls and 0 exactly after 0, 100, 200, ...
\* calls; the flag is written backward by the call that finds the accumulator
\* at 100 (calls 51, 151, ...) and forward again by the call that finds it at
\* 0 (calls 101, 201, ...).
C3_PingPong ==
    LET r == ticks % 100
    IN /\ time_add = IF r <= 50 THEN 2 * r ELSE 200 - 2 * r
       /\ (time_add = 100) <=> (r = 50)
       /\ (time_add = 0) <=> (r = 0)
       /\ flag <=> (ticks = 0 \/ (ticks - 1) % 100 < 50)

C3_Witness == ticks = 201 /\ time_add = 2 /\ flag

\* C4 as stated: on every call the flag becomes backward exactly when the
\* accumulator has reached time[2], forward exactly when it is back at
\* time[0], and keeps its value otherwise, with or without a third keyframe.
C4_Original ==
    [][flag' = IF time_add >= time[2] THEN FALSE
               ELSE IF time_add <= time[0] THEN TRUE
               ELSE flag]_vars

\* C4 as amended: on every call the flag becomes backward exactly when the
\* accumulator has reached the turning boundary, which is time[2] when a third
\* keyframe is given and time[1] when it is omitted; forward exactly when the
\* accumulator (not at the turning boundary) is at or below time[0]; and keeps
\* its value on every other call.
C4_FlagRule ==
    [][LET turn == IF key3 = None THEN time[1] ELSE time[2]
       IN flag' = IF time_add >= turn THEN FALSE
                  ELSE IF time_add <= time[0] THEN TRUE
                  ELSE flag]_vars

C4_Witness ==
    /\ key3 = None
    /\ ~flag
    /\ segment = "AB"
    /\ alpha = <<time[1] - time[0], time[1] - time[0]>>
    /\ time_add = time[1] - tempo
    /\ time[1] < time[2]

\* C5 as stated, for the calls that interpolate a segment: with playback on,
\* such a call adds tempo to the accumulator iff the flag (as the call has
\* just set it) is forward and the accumulator is below the upper bound of the
\* segment it interpolates; otherwise it subtracts tempo.
C5_Original ==
    [][(anition_start /\ segment' # "none") =>
        LET upper == IF segment' = "AB" THEN time[1] ELSE time[2]
            up == flag' /\ time_add < upper
        IN time_add' = IF up THEN time_add + tempo ELSE time_add - tempo]_vars

\* C5 as amended: with playback on, a call adds exactly tempo to the
\* accumulator iff the flag, as the call has just set it, is forward, and then
\* the accumulator is below the turning boundary (time[1] without a third
\* keyframe, time[2] with one); otherwise the call subtracts exactly tempo.
\* With playback off the accumulator does not change.
C5_StepRule ==
    [][LET turn == IF key3 = None THEN time[1] ELSE time[2]
       IN /\ anition_start =>
                /\ flag' => (time_add < turn /\ time_add' = time_add + tempo)
                /\ ~flag' => time_add' = time_add - tempo
          /\ ~anition_start => time_add' = time_add]_vars

C5_Witness ==
    /\ anition_start
    /\ key3 # None
    /\ flag
    /\ segment = "AB"
    /\ alpha[1] = alpha[2]
    /\ time_add = time[1] + tempo

\* C6: whenever a call interpolates a segment [t0,t1], the blend factor it
\* stores is (time_add - t0)/(t1 - t0), time_add being the accumulator the
\* call found, and it lies in [0,1].
C6_AlphaInUnit ==
    [][segment' # "none" =>
        LET t0 == IF segment' = "AB" THEN time[0] ELSE time[1]
            t1 == IF segment' = "AB" THEN time[1] ELSE time[2]
        IN /\ alpha' = <<time_add - t0, t1 - t0>>
           /\ t1 - t0 > 0
           /\ 0 <= time_add - t0
           /\ time_add - t0 <= t1 - t0]_vars

C6_Witness ==
    /\ segment = "BC"
    /\ alpha[1] > 0
    /\ alpha[1] < alpha[2]
    /\ tempo = MaxTempo

\* C7: every call selects A->B iff time[0] <= time_add <= time[1], B->C iff
\* time[1] < time_add <= time[2] and a third keyframe is given, and otherwise
\* nothing: then the pose it stores and returns is one identity matrix per
\* bone.
C7_SegmentChoice ==
    [][/\ segment' = "AB" <=> (time[0] <= time_add /\ time_add <= time[1])
       /\ segment' = "BC" <=>
            (time[1] < time_add /\ time_add <= time[2] /\ key3 # None)
       /\ segment' \in {"AB", "BC", "none"}
       /\ Len(MM') = Len(key1)
       /\ segment' = "none" =>
            /\ \A i \in 1..Len(key1) : MM'[i] = eye4
            /\ \A i \in 1..Len(key1) :
                 MM1Data'[i] = eye4[1] \o eye4[2] \o eye4[3] \o eye4[4]
            /\ Len(MM1Data') = Len(key1)]_vars

C7_Witness ==
    /\ segment = "none"
    /\ key3 = None
    /\ Len(MM) = 2
    /\ MM[1] = eye4
    /\ time_add > time[1]
    /\ time_add <= time[2]

C9_DrainEmpties ==
    lastOp.op = "remove_entity_children" =>
        /\ lastOp.err = "none"
        /\ children[lastOp.parent] = <<>>
        /\ lastOp.n < Cardinality(entities)

C9_Witness ==
    /\ lastOp.op = "remove_entity_children"
    /\ lastOp.err = "none"
    /\ lastOp.n = 3
    /\ children[lastOp.parent] = <<>>

\* C10: under createEntity, addEntityChild, remove and the drain loop the tree
\* stays acyclic (no entity is its own ancestor, and the child lists and the
\* parent references describe the same tree); an addEntityChild(parent,
\* child) whose child is the parent or one of its ancestors ends with a
\* structural error and changes no child list and no parent reference.
C10_Acyclic ==
    /\ [](/\ \A e \in entities : e \notin Ancestors(World, e)
          /\ \A p \in entities : \A c \in entities :
                InSeq(children[p], c) <=> (parent[c] = p /\ c # p))
    /\ [][(/\ lastOp'.op = "addEntityChild"
           /\ \/ lastOp'.child = lastOp'.parent
              \/ lastOp'.child \in Ancestors(World, lastOp'.parent))
          => (/\ lastOp'.err = "StructuralError"
              /\ children' = children
              /\ parent' = parent)]_vars

C10_Witness ==
    /\ lastOp.op = "addEntityChild"
    /\ lastOp.err = "StructuralError"
    /\ lastOp.child # lastOp.parent
    /\ lastOp.child \in Ancestors(World, lastOp.parent)
    /\ parent[lastOp.child] # lastOp.child

\* C11 as stated: no init or render pass reads a mesh whose attribute arrays
\* differ in row count (a mesh given such arrays through the constructor,
\* the setter or append is rejected or flagged before).
C11_Original ==
    (meshOp.op = "accept" /\ meshOp.system \in MeshReaders /\ meshOp.err = "none") =>
        \A i \in 1..Len(meshOp.read) : \A j \in 1..Len(meshOp.read) :
            meshOp.read[i] = meshOp.read[j]

\* C12: the arrays a generate function of the feature wrappers returns
\* together have the same row count, and every index it returns is at least
\* 0 and below that row count.
C12_RowsAndIndices ==
    (data.wrapper # "none" /\ data.out.raised = "none") =>
        LET attrs == data.out.attributes
            rows == Len(attrs[1])
        IN /\ \A i \in 1..Len(attrs) : Len(attrs[i]) = rows
           /\ \A k \in 1..Len(data.out.indices) :
                 data.out.indices[k] >= 0 /\ data.out.indices[k] < rows

C12_Witness ==
    /\ data.wrapper = "generate_plot3d_data"
    /\ data.out.raised = "none"
    /\ Len(data.out.attributes) = 3
    /\ Len(data.out.attributes[3]) = 24
    /\ Len(data.out.indices) = 24
    /\ data.out.indices[24] = 23

\* C13 as stated: every position array and every colour array a feature
\* wrapper hands to a mesh has rows of 4 components, and every position row
\* ends with the homogeneous 1.
C13_Original ==
    (data.wrapper # "none" /\ data.out.raised = "none") =>
        LET positions == data.out.attributes[1]
            colours == data.out.attributes[2]
        IN /\ \A i \in 1..Len(positions) :
                 Len(positions[i]) = 4 /\ positions[i][4] = 1
           /\ \A i \in 1..Len(colours) : Len(colours[i]) = 4

C15_Original == compOp.op = "update" => compOp.raised = "none"

\* C16: accept(system) with a system that has no handler for the class of the
\* component is a no-op: the component is unchanged and nothing is raised.
C16_AcceptNoHandler ==
    [][(compOp'.op = "accept" /\ comp.type \notin Handled(compOp'.system)) =>
        comp' = comp /\ compOp'.raised = "none"]_vars

\* a transform whose l2world is not what the transform system would compute,
\* visited by the render system and left as it was
C16_Witness ==
    /\ compOp.op = "accept"
    /\ compOp.system = "RenderGLShaderSystem"
    /\ comp.type = "BasicTransform"
    /\ comp.l2world # comp.trs
    /\ Len(compOp.calls) = 4

\* C17: a decorator forwards init and update to the component it wraps
\* exactly once, with the named arguments it was given, and the wrapped
\* component ends as a direct call would leave it; the accept of
\* BasicTransformDecorator invokes no handler and no accept of the wrapped
\* component, and changes nothing.
C17_DecoratorForwards ==
    [][comp.type \in Decorators =>
        /\ compOp'.op \in {"init", "update"} =>
              /\ SelectSeq(compOp'.calls, LAMBDA x : x.depth = 1) =
                    <<Called(1, comp.component.type, compOp'.op, compOp'.kwargs)>>
              /\ comp'.type = comp.type
              /\ comp'.component =
                    IF compOp'.op = "init" THEN init(comp.component, 1).c
                    ELSE update(comp.component, compOp'.kwargs, 1).c
        /\ compOp'.op = "accept" =>
              /\ compOp'.calls = <<Called(0, comp.type, "accept", <<>>)>>
              /\ comp' = comp]_vars

\* a decorator around a BasicTransform after update(trs=..., ...): the wrapped
\* transform holds the matrix passed
C17_Witness ==
    /\ compOp.op = "update"
    /\ comp.type = "BasicTransformDecorator"
    /\ comp.component.type = "BasicTransform"
    /\ "trs" \in DOMAIN compOp.kwargs
    /\ comp.component.trs = compOp.kwargs["trs"]
    /\ comp.component.l2world = util_identity
    /\ Len(compOp.calls) = 2

\* C20: getChild(index) returns the none value for an index out of range on
\* an entity and for every index on a leaf component; add and remove leave a
\* leaf component as it was.
C20_LeafOperations ==
    [][/\ compOp'.op = "getChild" =>
             compOp'.ret = None /\ compOp'.raised = "none" /\ comp' = comp
       /\ compOp'.op \in {"add", "remove"} =>
             comp' = comp /\ compOp'.raised = "none"
       /\ (compOp'.op = "Entity.getChild"
           /\ compOp'.kwargs[2] \notin 1..compOp'.kwargs[1]) =>
             compOp'.ret = NoEntity]_vars

\* getChild(1) asked of a decorator that wraps a component: none
C20_Witness ==
    /\ compOp.op = "getChild"
    /\ compOp.kwargs = <<1>>
    /\ comp.type = "BasicTransformDecorator"
    /\ compOp.ret = None

\* C18: in every round of the main loop the camera-only pass runs before the
\* general camera pass, so at the end of the round the camera's root2cam is
\* the inverse of the current accumulated l2world of the camera's entity and
\* every transform's l2cam was composed with that same root2cam.
C18_SameFrameRoot2Cam ==
    [][(pc \in {"pre_camera", "camUpdate"} /\ pc' = "render") =>
        LET w == [entities |-> entities', parent |-> parent',
                  children |-> children', comps |-> comps']
            cam == w.comps[orthoCam[1]][orthoCam[2]]
            root2cam == Inverse(CameraL2World(w, orthoCam[1]))
        IN /\ cam.root2cam = root2cam
           /\ \A e \in w.entities : \A j \in 1..Len(w.comps[e]) :
                 w.comps[e][j].type = "BasicTransform" =>
                    w.comps[e][j].l2cam =
                       MatMul(cam.projMat, MatMul(root2cam, w.comps[e][j].l2world))]_vars

\* the end of a round in which the camera entity's l2world was the
\* translation by (0, 0, -8): root2cam is the translation back and the
\* object's l2cam carries it
C18_Witness ==
    /\ pc = "render"
    /\ lastOp.op = "traverse_visit"
    /\ comps[3][1].l2world = util_translate(0, 0, -8)
    /\ comps[3][2].root2cam = util_translate(0, 0, 8)
    /\ comps[4][1].l2world = util_identity
    /\ comps[4][1].l2cam = MatMul(util_scale(2), util_translate(0, 0, 8))

\* C19: l2world is recomputed on every pass: once the passes of a round of the
\* main loop have run, every transform's l2world is the composition of the
\* current trs of its entity and of its ancestors.
C19_Original ==
    [][(pc = "camUpdate" /\ pc' = "render") =>
        LET w == [entities |-> entities', parent |-> parent',
                  children |-> children', comps |-> comps']
        IN \A e \in w.entities : \A j \in 1..Len(w.comps[e]) :
              w.comps[e][j].type = "BasicTransform" =>
                 w.comps[e][j].l2world =
                    MatMul(InheritedL2World(w, e, Cardinality(w.entities)),
                           w.comps[e][j].trs)]_vars

\* C22: generate_plot2d_data with func_detail = n >= 2 returns the n - 1
\* segments that join consecutive samples: 2(n - 1) vertices, vertex 2i being
\* sample i and vertex 2i + 1 sample i + 1, the last sample included.
C22_Original ==
    (data.wrapper = "generate_plot2d_data" /\ input.detail >= 2) =>
        LET n == input.detail
            x == linspace(input.plot_boundaries[1], input.plot_boundaries[2], n)
            y == eval_f_x(input.functions.f_x, x)
            v == data.out.attributes[1]
        IN /\ Len(v) = 2 * (n - 1)
           /\ \A i \in 0..(n - 2) :
                 /\ v[2 * i + 1] = <<x[i + 1], y[i + 1], 0, 1>>
                 /\ v[2 * i + 2] = <<x[i + 2], y[i + 2], 0, 1>>

\* C23: vertices_to_line_vertices on n >= 2 points returns 2(n - 1) entries,
\* entry 2i being point i and entry 2i + 1 point i + 1 for 0 <= i < n - 1:
\* each segment ends where the next one starts.
C23_Polyline ==
    (data.wrapper = "vertices_to_line_vertices" /\ Len(input.nodes) >= 2) =>
        LET points == xyz_to_vertices(input.nodes)
            n == Len(points)
            v == data.out.attributes[1]
        IN /\ Len(v) = 2 * (n - 1)
           /\ \A i \in 0..(n - 2) :
                 v[2 * i + 1] = points[i + 1] /\ v[2 * i + 2] = points[i + 2]

\* three different points: four entries, the middle point twice
C23_Witness ==
    /\ data.wrapper = "vertices_to_line_vertices"
    /\ input.nodes = << <<0, 0, 0>>, <<1, 0, 1>>, <<-1, 1, 0>> >>
    /\ data.out.attributes[1] =
          << <<0, 0, 0, 1>>, <<1, 0, 1, 1>>, <<1, 0, 1, 1>>, <<-1, 1, 0, 1>> >>

\* C24: a loop over a BasicTransform, Camera, RenderMesh or Keyframe ends
\* without running its body: the null iterator signals exhaustion on its
\* first step.
C24_Original ==
    (compOp.op = "for" /\ comp.type \in NullIterated) =>
        compOp.raised = "none" /\ compOp.ret = [done |-> TRUE, n |-> 0]

\* C25: playback that starts with the accumulator inside the range keeps it
\* bounded: time[0] - tempo <= time_add <= U + tempo in every reachable
\* state, U being time[1] with two keyframes and time[2] with three.
C25_AccumulatorBounded ==
    LET U == IF key3 = None THEN time[1] ELSE time[2]
    IN time[0] - tempo <= time_add /\ time_add <= U + tempo

\* two keyframes, tempo 2: the accumulator has stepped over time[1] by one
C25_Witness ==
    /\ key3 = None
    /\ tempo = 2
    /\ flag
    /\ segment = "AB"
    /\ time_add = time[1] + 1

\* C26: with playback on and tempo > 0 the ping-pong never gets stuck: from
\* every reachable state the flag is eventually backward and eventually
\* forward again, with two keyframes and with three.
C26_PingPongLive == ([]<>flag) /\ ([]<>(~flag))

\* three keyframes, on the way back: the last call stepped the accumulator
\* below time[0], the next one turns the flag forward
C26_Witness ==
    /\ ~flag
    /\ key3 # None
    /\ segment = "AB"
    /\ time_add < time[0]
    /\ FlagAfter

\* C27: during playback started inside the range every call returns an
\* interpolated pose: the accumulator is inside an active segment at the
\* segment test, whatever the tempo.
C27_Original == [][segment' # "none"]_vars

\* ------------------------------------------- two AnimationComponents objects
MaxCalls == 3

MaxLists == 2

\* the other of the two instances
Other(x) == IF x = "a" THEN "b" ELSE "a"

\* animation_loop(k1, k2, k3) called on the instance o whose time field
\* refers to a list holding t: the fields of o after the call
AnimationComponents_animation_loop(o, t, k1, k2, k3) ==
    LET f == IF (o.time_add >= t[1] /\ k3 = None) \/ o.time_add >= t[2] THEN FALSE
             ELSE IF o.time_add <= t[0] THEN TRUE
             ELSE o.flag
        seg == IF o.time_add >= t[0] /\ o.time_add <= t[1] THEN "AB"
               ELSE IF o.time_add > t[1] /\ o.time_add <= t[2] /\ k3 # None THEN "BC"
               ELSE "none"
        a == IF seg = "AB" THEN AlphaOf(o.time_add, t[0], t[1])
             ELSE IF seg = "BC" THEN AlphaOf(o.time_add, t[1], t[2])
             ELSE o.alpha
        mm == IF seg = "AB" THEN BlendedMM(IdleMM(k1), k1, k2, a, o.inter)
              ELSE IF seg = "BC" THEN BlendedMM(IdleMM(k1), k2, k3, a, o.inter)
              ELSE IdleMM(k1)
        step == IF ~o.anition_start THEN 0 ELSE IF f THEN o.tempo ELSE 0 - o.tempo
    IN [o EXCEPT !.flag = f, !.alpha = a, !.MM = mm, !.time_add = @ + step]

\* the values the caller assigns and writes
TimeLists == { [i \in 0..2 |-> 4 * i] }

TimeEdits == { <<1, 2>>, <<2, 150>> }

\* x.animation_loop(key1, key2, key3)
InstLoop ==
    \E x \in Instances : \E k3 \in {None, <<PoseC>>} :
        /\ instOp.n < MaxCalls
        /\ anims' = [anims EXCEPT ![x] = AnimationComponents_animation_loop(
                                             @, lists[@.time], <<PoseA>>, <<PoseB>>, k3)]
        /\ instOp' = InstOp("animation_loop", x, instOp.n + 1)
        /\ UNCHANGED <<lists, animVars, worldVars, meshVars, compVars, pc, renderVars>>

\* x.time = [...]: the field refers to a new list object
InstAssignTime ==
    \E x \in Instances : \E t \in TimeLists :
        LET id == Cardinality(DOMAIN lists)
        IN /\ instOp.n < MaxCalls
           /\ id < MaxLists
           /\ lists' = lists @@ (id :> t)
           /\ anims' = [anims EXCEPT ![x].time = id]
           /\ instOp' = InstOp("time =", x, instOp.n + 1)
           /\ UNCHANGED <<animVars, worldVars, meshVars, compVars, pc, renderVars>>

\* x.time_add = v, x.flag = v, x.alpha = v
InstAssignField ==
    \E x \in Instances :
        /\ instOp.n < MaxCalls
        /\ \/ \E v \in {0, 100} : anims' = [anims EXCEPT ![x].time_add = v]
           \/ \E v \in BOOLEAN : anims' = [anims EXCEPT ![x].flag = v]
           \/ \E v \in {<<0, 1>>, <<1, 2>>} : anims' = [anims EXCEPT ![x].alpha = v]
        /\ instOp' = InstOp("field =", x, instOp.n + 1)
        /\ UNCHANGED <<lists, animVars, worldVars, meshVars, compVars, pc, renderVars>>

\* x.time[i] = v: the list object x.time refers to is written in place
InstEditTime ==
    \E x \in Instances : \E e \in TimeEdits :
        /\ instOp.n < MaxCalls
        /\ lists' = [lists EXCEPT ![anims[x].time][e[1]] = e[2]]
        /\ instOp' = InstOp("time[i] =", x, instOp.n + 1)
        /\ UNCHANGED <<anims, animVars, worldVars, meshVars, compVars, pc, renderVars>>

InstancesNext == InstLoop \/ InstAssignTime \/ InstAssignField \/ InstEditTime

InstancesSpecInit == AnimInitDefault /\ WorldInit /\ RestInit

SpecInstances == InstancesSpecInit /\ [][InstancesNext]_vars

\* what the claim calls the time boundaries and state of an instance
InstanceState(x) ==
    [time |-> lists[anims[x].time], time_add |-> anims[x].time_add,
     flag |-> anims[x].flag, alpha |-> anims[x].alpha]

\* C28: animation state is per instance: whatever is done to one of two
\* instances created with the default arguments (an assignment, an in-place
\* write to its time list, its animation_loop) leaves the time boundaries,
\* accumulator, flag and alpha of the other as they were.
C28_Original ==
    [][\A x \in Instances :
          instOp'.on = x => InstanceState(Other(x))' = InstanceState(Other(x))]_vars

\* ------------------------------------------------- the render operations
MaxRenders == 3

\* VertexArray(primitive=...)
VertexArray(primitive) == [type |-> "VertexArray", primitive |-> primitive]

\* ShaderGLDecorator(Shader(vertex_source=..., fragment_source=...)); id
\* tells the objects apart
ShaderGLDecorator(vertex_source, fragment_source, id) ==
    [type |-> "ShaderGLDecorator", vertex_source |-> vertex_source,
     fragment_source |-> fragment_source, id |-> id]

\* the components created so far, on the entities 1..n
RECURSIVE ComponentCount(_, _)
ComponentCount(w, n) ==
    IF n = 0 THEN 0 ELSE Len(w.comps[n]) + ComponentCount(w, n - 1)

\* mesh.vertex_attributes.append(a) for every array a of arrays, from the
\* i-th on
RECURSIVE AppendAttributes(_, _, _)
AppendAttributes(m, arrays, i) ==
    IF i > Len(arrays) THEN m
    ELSE AppendAttributes(RenderMesh_append_attribute(m, arrays[i]), arrays, i + 1)

\* what every render operation does with the arrays it has for an entity:
\* addComponent of a BasicTransform, of a RenderMesh that gets the arrays
\* appended, of a VertexArray and of a shader (shader: the one created)
AddGeometry(w, e, out, primitive, vertex_source, fragment_source) ==
    LET w1 == addComponent(w, e, BasicTransform(util_identity))
        m == RenderMesh_append_index(
                 AppendAttributes(RenderMesh(<<>>, <<>>), out.attributes, 1), out.indices)
        w2 == addComponent(w1, e, m)
        w3 == addComponent(w2, e, VertexArray(primitive))
        sh == ShaderGLDecorator(vertex_source, fragment_source,
                                ComponentCount(w3, Cardinality(w3.entities)) + 1)
    IN [w |-> addComponent(w3, e, sh), shader |-> sh]

\* createEntity(Entity(...)); addEntityChild(e, it) (it: the new entity)
AddHelper(w, e) ==
    LET it == Cardinality(w.entities) + 1
    IN [w |-> addEntityChild(createEntity(w), e, it).w, it |-> it]

\* the outcome of a render operation: the world, the shader list of the
\* wrapper, what the call raised
Rendered(w, list, raised) == [w |-> w, list |-> list, raised |-> raised]

\* BezierCurve.render_curve(bezier_control_nodes, render_detail)
render_curve(w, all_shaders, bezier_entity, bezier_control_nodes, render_detail) ==
    LET out == generate_bezier_data(bezier_control_nodes, render_detail)
    IN IF out.raised # "none" THEN Rendered(w, all_shaders, out.raised)
       ELSE LET w1 == remove_entity_children(w, bezier_entity).w
                bezier == AddGeometry(w1, bezier_entity, out, "GL_LINES",
                                      "COLOR_VERT_MVP", "COLOR_FRAG")
                h == AddHelper(bezier.w, bezier_entity)
                control_nodes == AddGeometry(h.w, h.it,
                                     generate_nodes_data(bezier_control_nodes),
                                     "GL_POINTS", "COLOR_VERT_MVP", "COLOR_FRAG")
            IN Rendered(traverse_visit("InitGLShaderSystem", control_nodes.w, root).w,
                        all_shaders \o <<bezier.shader, control_nodes.shader>>, "none")

\* the points are all on one line (fewer than three always are)
Collinear(points) ==
    \A i, j \in 1..Len(points) :
        Cross(VSub(points[i], points[1]), VSub(points[j], points[1])) = <<0, 0, 0>>

\* Plane.best_fit(Points(fitting_nodes)): the library refuses collinear
\* points; plane stands for the plane it fits to the others
Plane_best_fit(fitting_nodes, plane) ==
    IF fitting_nodes = <<>> \/ Collinear(fitting_nodes) THEN Raised("ValueError")
    ELSE [raised |-> "none", plane |-> plane]

\* PlaneFitting.fit_plane(fitting_nodes)
fit_plane(w, all_shaders, planefitting_entity, fitting_nodes, plane) ==
    LET w1 == remove_entity_children(w, planefitting_entity).w
        fit == Plane_best_fit(fitting_nodes, plane)
    IN IF fit.raised # "none" THEN Rendered(w1, all_shaders, fit.raised)
       ELSE LET planefitting == AddGeometry(w1, planefitting_entity,
                                    generate_planefitting_data(fit.plane, fitting_nodes),
                                    "GL_TRIANGLES", "COLOR_VERT_MVP", "COLOR_FRAG")
                h1 == AddHelper(planefitting.w, planefitting_entity)
                projection_lines == AddGeometry(h1.w, h1.it,
                                        generate_projection_lines(fit.plane, fitting_nodes),
                                        "GL_LINES", "COLOR_VERT_MVP", "COLOR_FRAG")
                h2 == AddHelper(projection_lines.w, planefitting_entity)
                nodes == AddGeometry(h2.w, h2.it, generate_nodes_data(fitting_nodes),
                                     "GL_POINTS", "COLOR_VERT_MVP", "COLOR_FRAG")
            IN Rendered(traverse_visit("InitGLShaderSystem", nodes.w, root).w,
                        all_shaders \o <<planefitting.shader, projection_lines.shader,
                                         nodes.shader>>, "none")

\* FunctionPlotting.render_2d_plot(plot_boundaries, func_detail, f_x)
render_2d_plot(w, shader_2d, function2d_entity, plot_boundaries, func_detail, f_x) ==
    LET out == generate_plot2d_data(plot_boundaries, func_detail, f_x)
    IN IF out.raised # "none" THEN Rendered(w, shader_2d, out.raised)
       ELSE LET w1 == remove_entity_children(w, function2d_entity).w
                plotting2d == AddGeometry(w1, function2d_entity, out, "GL_LINES",
                                          "COLOR_VERT_MVP", "COLOR_FRAG")
            IN Rendered(traverse_visit("InitGLShaderSystem", plotting2d.w, root).w,
                        Append(shader_2d, plotting2d.shader), "none")

\* FunctionPlotting.render_3d_plot(plot_boundaries, func_detail, f_x_y)
render_3d_plot(w, shader_3d, function3d_entity, plot_boundaries, func_detail, f_x_y) ==
    LET out == generate_plot3d_data(plot_boundaries, func_detail, f_x_y)
    IN IF out.raised # "none" THEN Rendered(w, shader_3d, out.raised)
       ELSE LET w1 == remove_entity_children(w, function3d_entity).w
                plotting3d == AddGeometry(w1, function3d_entity, out, "GL_TRIANGLES",
                                          "VERT_PHONG_MVP", "FRAG_PHONG")
            IN Rendered(traverse_visit("InitGLShaderSystem", plotting3d.w, root).w,
                        Append(shader_3d, plotting3d.shader), "none")

\* the entities the wrappers are constructed with, in a scene that holds the
\* root and these four below it
Targets == [render_curve |-> 2, fit_plane |-> 3, render_2d_plot |-> 4, render_3d_plot |-> 5]

\* the list each operation appends to
ListOf == [render_curve |-> "all_shaders", fit_plane |-> "all_shaders",
           render_2d_plot |-> "shader_2d", render_3d_plot |-> "shader_3d"]

RECURSIVE AddTargets(_, _)
AddTargets(w, n) == IF n = 0 THEN w ELSE AddTargets(AddHelper(w, root).w, n - 1)

RenderOp(name, entity, raised, n) ==
    [op |-> name, entity |-> entity, raised |-> raised, n |-> n]

\* the example's scene: the root and one entity per render operation
RenderBuildScene ==
    /\ entities = {}
    /\ SetWorld(AddTargets(createEntity(World), 4))
    /\ lastOp' = Op("Scene", 0, 0, "none", 0, <<>>)
    /\ renderOp' = RenderOp("Scene", 0, "none", 0)
    /\ UNCHANGED <<animVars, meshVars, compVars, pc, instVars, shaders>>

\* one render operation, as the button of its wrapper starts it
DoRender(name, r) ==
    /\ entities # {}
    /\ renderOp.n < MaxRenders
    /\ SetWorld(r.w)
    /\ shaders' = [shaders EXCEPT ![ListOf[name]] = r.list]
    /\ renderOp' = RenderOp(name, Targets[name], r.raised, renderOp.n + 1)
    /\ lastOp' = Op(name, Targets[name], 0, r.raised, 0, <<>>)
    /\ UNCHANGED <<animVars, meshVars, compVars, pc, instVars>>

RenderCurve ==
    \E detail \in {0, MaxDetail} :
        DoRender("render_curve",
                 render_curve(World, shaders.all_shaders, Targets.render_curve,
                              InputDefault.nodes, detail))

RenderFitPlane ==
    \E nodes \in {InputDefault.nodes, SubSeq(InputDefault.nodes, 1, 2)} :
        DoRender("fit_plane",
                 fit_plane(World, shaders.all_shaders, Targets.fit_plane, nodes,
                           InputDefault.plane))

RenderPlot2d ==
    \E detail \in {2, MaxDetail} :
        DoRender("render_2d_plot",
                 render_2d_plot(World, shaders.shader_2d, Targets.render_2d_plot,
                                InputDefault.plot_boundaries, detail,
                                InputDefault.functions.f_x))

RenderPlot3d ==
    \E detail \in {2, MaxDetail} :
        DoRender("render_3d_plot",
                 render_3d_plot(World, shaders.shader_3d, Targets.render_3d_plot,
                                InputDefault.plot_boundaries, detail,
                                InputDefault.functions.f_x_y))

RenderNext ==
    \/ RenderBuildScene
    \/ RenderCurve
    \/ RenderFitPlane
    \/ RenderPlot2d
    \/ RenderPlot3d

RenderSpecInit == AnimInitDefault /\ WorldInit /\ RestInit

SpecRender == RenderSpecInit /\ [][RenderNext]_vars

RenderOps == DOMAIN Targets

\* the components of the given type on entity e
OfType(e, type) == {j \in 1..Len(comps[e]) : comps[e][j].type = type}

\* the helper entities a render operation creates below its target
Helpers == [render_curve |-> 1, fit_plane |-> 2, render_2d_plot |-> 0, render_3d_plot |-> 0]

\* C21: re-rendering replaces the old geometry: after a render operation has
\* run on its entity, the entity carries one BasicTransform, one RenderMesh,
\* one VertexArray and one shader, and its children are the helper entities
\* that call created (the newest entities of the world); nothing older is
\* left.
C21_Original ==
    (renderOp.op \in RenderOps /\ renderOp.raised = "none") =>
        LET e == renderOp.entity
            N == Cardinality(entities)
            h == Helpers[renderOp.op]
        IN /\ \A type \in {"BasicTransform", "RenderMesh", "VertexArray", "ShaderGLDecorator"} :
                  Cardinality(OfType(e, type)) = 1
           /\ Len(comps[e]) = 4
           /\ children[e] = [i \in 1..h |-> N - h + i]

\* C29: a render operation is all or nothing: when the geometry computation
\* raises, the children and the components of the target entity and the
\* shader lists are what they were before the call.
C29_Original ==
    [][(renderOp'.op \in RenderOps /\ renderOp'.raised # "none") =>
          /\ children'[renderOp'.entity] = children[renderOp'.entity]
          /\ comps'[renderOp'.entity] = comps[renderOp'.entity]
          /\ shaders' = shaders]_vars

\* the shaders attached to an entity that is in the scene (the root or below)
AttachedShaders ==
    UNION { {comps[e][j] : j \in OfType(e, "ShaderGLDecorator")} :
              e \in {x \in entities : x = root \/ root \in Ancestors(World, x)} }

\* the shaders one call of the operations on a list creates, together
ShadersPerRender == [all_shaders |-> 5, shader_2d |-> 1, shader_3d |-> 1]

\* C30: a shader list holds only shaders that are attached to an entity of
\* the scene, and it does not grow with the number of re-renders.
C30_Original ==
    \A l \in DOMAIN shaders :
        /\ \A i \in 1..Len(shaders[l]) : shaders[l][i] \in AttachedShaders
        /\ Len(shaders[l]) <= ShadersPerRender[l]

====
